---- MODULE Spec2Model ----
(***************************************************************************)
(* A model of the doze dependency-injection container                      *)
(* (src/doze/di/container): the repository of factories, the wiring done   *)
(* by setup, and the lazy construction of singletons guarded by the        *)
(* thread-scoped cyclic-reference detector.                                *)
(*                                                                         *)
(* Factory objects are identified by their position in heap, the order in  *)
(* which they were made.  A thread's Python call stack is the sequence of  *)
(* its active calls (frames); a step of a thread is a run of statements    *)
(* with at most one access to state another thread can change in between.  *)
(* The detector's per-thread list (context) is a separate variable,        *)
(* updated only by push and pop.                                           *)
(***************************************************************************)
EXTENDS Integers, Sequences, FiniteSets, TLC

\* ------------------------------------------------------------ bounds

\* Largest number of factories a repository holds in the model (the
\* container's own factory included).
MaxFactories == 4

\* Largest number of objects a prototype factory has made when a
\* get_component call starts.
MaxObjects == 3

\* ------------------------------------------------------------ universe

\* Thread identities (threading.get_ident()).  Spec drives the container
\* from one thread.
Threads == {1, 2}
MainThreads == {1}

\* Exceptions, by class name; NoExc stands for a normal return.
NoExc == "ok"
NameAlreadyDefinedException == "NameAlreadyDefinedException"
UnknownComponentException == "UnknownComponentException"
TooManyDefinitionsException == "TooManyDefinitionsException"
TypeMismatchException == "TypeMismatchException"
CyclicDependencyException == "CyclicDependencyException"
InvalidStateException == "InvalidStateException"
InvalidArgumentException == "InvalidArgumentException"
TypeError == "TypeError"
IndexError == "IndexError"
AttributeError == "AttributeError"
RuntimeError == "RuntimeError"

CONTAINER_COMPONENT_NAME == "container"

\* Python types of the universe.  A, B and C are classes whose __init__ takes
\* one requirement; L is a subclass of A whose __init__ takes none; str is
\* the type of a pre-built instance handed to register_instance.  K, M, N,
\* P, U, V, W and Z are classes whose __init__ signatures are listed at
\* InitParams; Q, R, S, T, X and Y are classes whose __init__ looks components up (see
\* Lookups).
Types ==
    {"object", "Container", "str", "A", "L", "B", "C", "K", "M", "N", "P", "U", "V", "W",
     "Z", "Q", "R", "S", "T", "X", "Y"}

\* The types get_component is asked for.
KeyTypes == {"object", "Container", "A", "L", "B", "C"}

\* The classes register_type is called with.
Classes == {"A", "L", "B", "C"}

\* The classes a PrototypeComponentFactory is made for, with the names the
\* factories are registered under.
Prototypes == {<<"L", "l">>, <<"C", "c">>}

\* The classes register_type is called with where the container is injected
\* and where signatures have parameters of several kinds.
InjectClasses == {"K", "M", "N", "P", "U", "V", "W", "Z"}

\* The classes register_type is called with where constructors look
\* components up in a container.
LookupClasses == {"L", "Q", "R", "S", "T", "X", "Y"}

\* Direct base class of every type (object is its own base here, which ends
\* the walk of IsSubclass).
BaseOf(ty) ==
    CASE ty = "L" -> "A"
      [] OTHER -> "object"

\* issubclass(ty, cls): reflexive, transitive along BaseOf.
RECURSIVE IsSubclass(_, _)
IsSubclass(ty, cls) ==
    IF ty = cls THEN TRUE
    ELSE IF ty = "object" THEN FALSE
    ELSE IsSubclass(BaseOf(ty), cls)

\* inspect.Parameter.empty: the annotation of a parameter declared without one.
EmptyAnnotation == "empty"

\* inspect.Parameter.kind
POSITIONAL_OR_KEYWORD == "POSITIONAL_OR_KEYWORD"
VAR_POSITIONAL == "VAR_POSITIONAL"
VAR_KEYWORD == "VAR_KEYWORD"

\* An inspect.Parameter: name, annotation and kind.
ParamOf(n, a, k) == [name |-> n, annotation |-> a, kind |-> k]

\* A parameter declared plainly (neither *name nor **name).
Param(n, a) == ParamOf(n, a, POSITIONAL_OR_KEYWORD)

\* The signature inspect.signature reports for cls.__init__:
\*   class A:    def __init__(self, b)
\*   class L(A): def __init__(self)
\*   class B:    def __init__(self, c)
\*   class C:    def __init__(self, a: A)
\*   class K:    def __init__(self, container: Container)
\*   class M:    def __init__(self, x: Container)
\*   class N:    def __init__(self, container: str)
\*   class P:    def __init__(self, k, m)
\*   class U:    def __init__(self, container)
\*   class V:    def __init__(self, *rest, **options)
\*   class W:    def __init__(self, name: str, *args, **kwargs)
\*   class Z:    def __init__(self, args)
\*   class Q:    def __init__(self, container: Container)
\*   class R:    def __init__(self, s)
\*   class S:    def __init__(self, container: Container)
\*   class T:    def __init__(self, container: Container)
\*   class X:    def __init__(self)
\*   class Y:    def __init__(self)
InitParams(cls) ==
    CASE cls = "A" -> <<Param("self", EmptyAnnotation), Param("b", EmptyAnnotation)>>
      [] cls = "B" -> <<Param("self", EmptyAnnotation), Param("c", EmptyAnnotation)>>
      [] cls = "C" -> <<Param("self", EmptyAnnotation), Param("a", "A")>>
      [] cls = "K" -> <<Param("self", EmptyAnnotation), Param("container", "Container")>>
      [] cls = "M" -> <<Param("self", EmptyAnnotation), Param("x", "Container")>>
      [] cls = "N" -> <<Param("self", EmptyAnnotation), Param("container", "str")>>
      [] cls = "U" -> <<Param("self", EmptyAnnotation), Param("container", EmptyAnnotation)>>
      [] cls = "P" -> <<Param("self", EmptyAnnotation), Param("k", EmptyAnnotation),
                        Param("m", EmptyAnnotation)>>
      [] cls = "V" -> <<Param("self", EmptyAnnotation),
                        ParamOf("rest", EmptyAnnotation, VAR_POSITIONAL),
                        ParamOf("options", EmptyAnnotation, VAR_KEYWORD)>>
      [] cls = "W" -> <<Param("self", EmptyAnnotation), Param("name", "str"),
                        ParamOf("args", EmptyAnnotation, VAR_POSITIONAL),
                        ParamOf("kwargs", EmptyAnnotation, VAR_KEYWORD)>>
      [] cls = "Z" -> <<Param("self", EmptyAnnotation), Param("args", EmptyAnnotation)>>
      [] cls \in {"Q", "S", "T"} ->
             <<Param("self", EmptyAnnotation), Param("container", "Container")>>
      [] cls = "R" -> <<Param("self", EmptyAnnotation), Param("s", EmptyAnnotation)>>
      [] OTHER -> <<Param("self", EmptyAnnotation)>>

\* cls(*args) with n positional arguments binds: self is bound by the call,
\* every plainly declared parameter needs one argument, and arguments beyond
\* those are taken only by a *name parameter.
accepts(cls, n) ==
    LET ps == InitParams(cls)
        plain == Cardinality({k \in 2..Len(ps) : ps[k].kind = POSITIONAL_OR_KEYWORD})
    IN /\ n >= plain
       /\ n > plain => \E k \in 1..Len(ps) : ps[k].kind = VAR_POSITIONAL

\* Component names callers use.
Names == {"l", "a", "b", "c", CONTAINER_COMPONENT_NAME}

\* The value None where a name is optional.
NoName == "None"

\* The names register_type is given explicitly (NoName: derived from the
\* type), and the names register_instance is given.
TypeNames == {NoName, "b", "c", CONTAINER_COMPONENT_NAME}
InstanceNames == {"a", CONTAINER_COMPONENT_NAME}

\* class_type.__name__, as the sequence of its characters.
ClassName(cls) ==
    CASE cls = "Container" -> <<"C", "o", "n", "t", "a", "i", "n", "e", "r">>
      [] cls = "object" -> <<"o", "b", "j", "e", "c", "t">>
      [] cls = "str" -> <<"s", "t", "r">>
      [] OTHER -> <<cls>>

\* str.isupper and str.lower on the characters of the class names.
LowerOf ==
    [A |-> "a", B |-> "b", C |-> "c", K |-> "k", L |-> "l", M |-> "m", N |-> "n", P |-> "p",
     Q |-> "q", R |-> "r", S |-> "s", T |-> "t", U |-> "u", V |-> "v", W |-> "w", X |-> "x",
     Y |-> "y", Z |-> "z"]

isupper(ch) == ch \in DOMAIN LowerOf

lower(ch) == IF isupper(ch) THEN LowerOf[ch] ELSE ch

\* The loop of to_component_name over the characters left: an upper-case
\* character is lowered and, unless it is the first of the name, preceded
\* by an underscore; any other character is kept.
RECURSIVE to_component_name_from(_, _)
to_component_name_from(class_name, component_name) ==
    IF class_name = <<>> THEN component_name
    ELSE LET ch == Head(class_name)
         IN to_component_name_from(
                Tail(class_name),
                IF isupper(ch)
                THEN (IF Len(component_name) > 0 THEN component_name \o "_" ELSE component_name)
                         \o lower(ch)
                ELSE component_name \o ch)

\* PascalToCamelCaseClassTypeResolverStrategy.to_component_name
to_component_name(cls) == to_component_name_from(ClassName(cls), "")

\* ------------------------------------------------------------ objects

\* A component instance.  Identity is (by, n): the component name of the
\* factory that constructed it and the ordinal of that constructor call;
\* pre-built objects have by = "external".
Instance(ty, by, n, args) == [type |-> ty, by |-> by, n |-> n, args |-> args]

\* None, as the value of SingletonComponentFactory._instance.
NoInstance == Instance("NoneType", "external", 0, <<>>)

\* The Container object itself.
ContainerObj == Instance("Container", "external", 1, <<>>)

\* Pre-built objects handed to register_instance.
StaticObjects == {Instance("str", "external", 2, <<>>)}

\* Another Container object, handed to register_instance of this container.
OtherContainer == Instance("Container", "external", 3, <<>>)

InjectObjects == {OtherContainer}

\* The names register_instance is given for it.
InjectInstanceNames == {"x", CONTAINER_COMPONENT_NAME}

\* None, as the value of _init_factories before post_init.
NoneFactories == <<0>>


\* ------------------------------------------------------------ keys

StrKey(n) == [kind |-> "str", v |-> n]
TypeKey(ty) == [kind |-> "type", v |-> ty]
NoKey == [kind |-> "none", v |-> "None"]

\* Keys that are neither a str nor a type: the int 42, which has no
\* attribute __name__, and the built-in function len, which has one.
OtherKey == [kind |-> "other", v |-> "42"]
FunctionKey == [kind |-> "other", v |-> "len"]

\* hasattr(key, '__name__') for the keys that are neither a str nor a type.
HasName(key) == key = FunctionKey

Keys == {StrKey(n) : n \in Names} \cup {TypeKey(ty) : ty \in KeyTypes} \cup {OtherKey}

\* The keys Container.exist is asked for.
ExistKeys == {StrKey("l"), TypeKey("A"), OtherKey, FunctionKey}

\* An argument of register_types that is a value, not a type.
NotAType == "42"

\* The argument lists register_types is called with.
TypeLists == {<<"L", "C">>, <<"L", NotAType>>}

\* A get_component call made by a constructor: on the container the
\* component is constructed by ("own", the constructor's container
\* argument), or on another container the constructor refers to ("other").
Lookup(c, key) == [container |-> c, key |-> key]

\* The get_component calls of cls.__init__, in order:
\*   class Q: container.get_component('q')     (itself)
\*   class S: container.get_component(R)       (R requires s)
\*   class T: container.get_component(L)
\*   class X: other.get_component('x')
\*   class Y: other.get_component('x')
Lookups(cls) ==
    CASE cls = "Q" -> <<Lookup("own", StrKey("q"))>>
      [] cls = "S" -> <<Lookup("own", TypeKey("R"))>>
      [] cls = "T" -> <<Lookup("own", TypeKey("L"))>>
      [] cls = "X" -> <<Lookup("other", StrKey("x"))>>
      [] cls = "Y" -> <<Lookup("other", StrKey("x"))>>
      [] OTHER -> <<>>

\* The keys get_component is asked for where the classes are LookupClasses.
LookupKeys == {TypeKey(ty) : ty \in LookupClasses} \cup {StrKey("s")}

\* The keys get_component is asked for where the classes are InjectClasses.
InjectKeys ==
    {TypeKey(ty) : ty \in InjectClasses}
        \cup {StrKey("k"), StrKey("m"), StrKey("x"), StrKey(CONTAINER_COMPONENT_NAME)}

\* ------------------------------------------------------------ state

VARIABLES
    heap,                       \* the ComponentFactory objects made for the container, in order of creation
    factories,                  \* Repository.factories: positions in heap, in the list's order
    factory_by_name,            \* Repository.factory_by_name: name -> position in heap
    available_component_types,  \* Repository.available_component_types
    context,                    \* DependencyCyclicDetector.__context: thread -> list of names
    frames,                     \* thread -> the thread's call stack, outermost call first
    result,                     \* thread -> outcome of the thread's last call
    other                       \* the Repository of a second container

vars ==
    <<heap, factories, factory_by_name, available_component_types, context, frames, result,
      other>>

\* ------------------------------------------------------------ requirements

Dependency(n, ty) == [component_name |-> n, component_type |-> ty]

IGNORED_PARAMETERS_NAMES == {"self", "args", "kwargs"}

\* An extraction that skips the first parameter and the parameters of the
\* kinds *name and **name, whatever their names.
RECURSIVE generate_dependency_list_by_kind(_)
generate_dependency_list_by_kind(params) ==
    IF params = <<>> THEN <<>>
    ELSE LET p == Head(params)
             cls == IF p.annotation # EmptyAnnotation THEN p.annotation ELSE "object"
             rest == generate_dependency_list_by_kind(Tail(params))
         IN IF p.name # "self" /\ p.kind \notin {VAR_POSITIONAL, VAR_KEYWORD}
            THEN <<Dependency(p.name, cls)>> \o rest
            ELSE rest

\* generate_dependency_list: one Dependency per parameter whose name is not
\* ignored; a missing annotation becomes object.
RECURSIVE generate_dependency_list(_)
generate_dependency_list(params) ==
    IF params = <<>> THEN <<>>
    ELSE LET p == Head(params)
             cls == IF p.annotation # EmptyAnnotation THEN p.annotation ELSE "object"
             rest == generate_dependency_list(Tail(params))
         IN IF p.name \notin IGNORED_PARAMETERS_NAMES
            THEN <<Dependency(p.name, cls)>> \o rest
            ELSE rest

\* ------------------------------------------------------------ factories

\* A static factory that keeps a copy of the instance it is given.
StaticComponentFactory_copy(component_name, instance) ==
    [component_name |-> component_name,
     component_type |-> instance.type,
     kind |-> "static",
     initialized |-> TRUE,
     requirements |-> <<>>,
     init_factories |-> NoneFactories,
     instance |-> [instance EXCEPT !.by = component_name],
     constructed |-> 0]

\* StaticComponentFactory.__init__: the type is type(instance), and the
\* factory is initialized at once.
StaticComponentFactory(component_name, instance) ==
    [component_name |-> component_name,
     component_type |-> instance.type,
     kind |-> "static",
     initialized |-> TRUE,
     requirements |-> <<>>,
     init_factories |-> NoneFactories,
     instance |-> instance,
     constructed |-> 0]

\* SingletonComponentFactory.__init__: not initialized, nothing wired,
\* no instance.  constructed counts the calls of the component's constructor
\* that returned.
SingletonComponentFactory(component_name, component_type, requirements) ==
    [component_name |-> component_name,
     component_type |-> component_type,
     kind |-> "singleton",
     initialized |-> FALSE,
     requirements |-> requirements,
     init_factories |-> NoneFactories,
     instance |-> NoInstance,
     constructed |-> 0]

\* PrototypeComponentFactory.__init__: not initialized, nothing wired; the
\* factory has no _instance attribute (instance stays NoInstance), and
\* constructed counts the objects it has made.
PrototypeComponentFactory(component_name, component_type, requirements) ==
    [component_name |-> component_name,
     component_type |-> component_type,
     kind |-> "prototype",
     initialized |-> FALSE,
     requirements |-> requirements,
     init_factories |-> NoneFactories,
     instance |-> NoInstance,
     constructed |-> 0]

\* is_type_of that takes only the factory's own type, not its subtypes.
is_type_of_exact(factory, cls) == factory.component_type = cls

\* ComponentFactory.is_type_of
is_type_of(factory, cls) == IsSubclass(factory.component_type, cls)

\* ------------------------------------------------------------ repository

\* A repository: the factory objects (fs), Repository.factories (list),
\* Repository.factory_by_name (byname) and
\* Repository.available_component_types (types).
Repo(fs, list, byname, types) == [fs |-> fs, list |-> list, byname |-> byname, types |-> types]

\* The factories the dictionary holds.
Values(byname) == {byname[n] : n \in DOMAIN byname}

\* Repository.find_by_name: the factory's position, 0 for None.
find_by_name(byname, component_name) ==
    IF component_name \in DOMAIN byname THEN byname[component_name] ELSE 0

\* Repository.find_by_type: the positions of all factories of the dictionary
\* that are of the type (callers look at the length of the list and at its
\* only element).
RECURSIVE find_by_type_from(_, _, _, _)
find_by_type_from(fs, byname, component_type, i) ==
    IF i > Len(fs) THEN <<>>
    ELSE (IF i \in Values(byname) /\ is_type_of(fs[i], component_type) THEN <<i>> ELSE <<>>)
         \o find_by_type_from(fs, byname, component_type, i + 1)

find_by_type(fs, byname, component_type) == find_by_type_from(fs, byname, component_type, 1)

\* The outcome of a call that returns a bool or raises.
Answer(exc, value) == [exc |-> exc, value |-> value]

\* exist that answers for types only.
exist_types_only(byname, types, key) ==
    IF key.kind = "type" THEN Answer(NoExc, key.v \in types)
    ELSE IF key.kind = "str" THEN Answer(NoExc, FALSE)
    ELSE IF HasName(key) THEN Answer(InvalidArgumentException, FALSE)
    ELSE Answer(AttributeError, FALSE)

\* Repository.exist.  For a key that is neither a str nor a type the message
\* of InvalidArgumentException is built from key.__name__, which raises
\* AttributeError when the key has no such attribute.
exist(byname, types, key) ==
    IF key.kind = "str" THEN Answer(NoExc, key.v \in DOMAIN byname)
    ELSE IF key.kind = "type" THEN Answer(NoExc, key.v \in types)
    ELSE IF HasName(key) THEN Answer(InvalidArgumentException, FALSE)
    ELSE Answer(AttributeError, FALSE)

\* ------------------------------------------------------------ results

Result(op, key, exc, obj, cyc) ==
    [op |-> op, key |-> key, exc |-> exc, obj |-> obj, cyclic_list |-> cyc]

NoResult == Result("none", NoKey, NoExc, NoInstance, <<>>)

\* The bool a call returns, as the object of its result.
BoolObj(b) == Instance("bool", "external", IF b THEN 1 ELSE 0, <<>>)

\* The exception slot of the result of a call that has not ended.
Pending == "pending"

Idle(t) == frames[t] = <<>>

\* ------------------------------------------------------------ call stack

Containers == {"own", "other"}

OtherOf(c) == IF c = "own" THEN "other" ELSE "own"

\* A frame: one active call of a thread.  pc names the call and the
\* statement it is at:
\*   register_types    the second loop of Container.register_types, rest its
\*                     remaining arguments;
\*   register_factory  Repository.register_factory for the factory at
\*                     position factory, named name, idx the next of its
\*                     three writes;
\*   setup             the head of the loop of Container.setup, pos the
\*                     index in Repository.factories;
\*   post_init         the loop of post_init for the factory at position
\*                     factory, idx the requirement, found the factory
\*                     find_by_type returned for it (0: none yet);
\*   find              Repository.find_by_type(key.v) called by post_init,
\*                     the dictionary's iterator not yet made;
\*   iterate           Repository.find_by_type(key.v), the iterator made
\*                     when the dictionary had size entries; caller is
\*                     get_component or post_init;
\*   found             get_component about to call get_object of factory;
\*   enter             _create_component of factory, the name pushed;
\*   create            _create_component of factory, past _assert_initialized:
\*                     args the instances collected so far, called when the
\*                     constructor has been entered, looked the number of
\*                     get_component calls the constructor has been
\*                     answered; live when the list being iterated is still
\*                     the factory's _init_factories, otherwise list is what
\*                     the list object holds;
\*   return            SingletonComponentFactory.get_object of factory past
\*                     the assignment of _instance.
NoFrame ==
    [pc |-> "none", container |-> "own", factory |-> 0, name |-> NoName, key |-> NoKey,
     caller |-> "none", args |-> <<>>, called |-> FALSE, looked |-> 0, live |-> TRUE,
     list |-> <<>>, size |-> 0, pos |-> 0, idx |-> 0, found |-> 0, rest |-> <<>>]

Frame(pc, c) == [NoFrame EXCEPT !.pc = pc, !.container = c]

\* The frames of _create_component calls: the with-block is entered and not
\* yet left.
InBlock(fr) == fr.pc \in {"enter", "create"}

\* Nothing replaced the list of a factory in the step.
NoStale == [container |-> "none", factory |-> 0, list |-> <<>>]

\* The running state of one thread's call: the repositories of the two
\* containers, the thread's frames and detector list, the call's result so
\* far, and the list object that post_init replaced in the step (stale).
Running(rep, frs, ctx, res) ==
    [rep |-> rep, frs |-> frs, ctx |-> ctx, res |-> res, stale |-> NoStale]

Top(st) == st.frs[Len(st.frs)]

Outer(st) == SubSeq(st.frs, 1, Len(st.frs) - 1)

\* st with the innermost frame replaced by fr.
Replace(st, fr) == [st EXCEPT !.frs = Append(Outer(st), fr)]

\* st with the innermost frame returned.
Return(st) == [st EXCEPT !.frs = Outer(st)]

\* st with a call of fr made.
Invoke(st, fr) == [st EXCEPT !.frs = Append(st.frs, fr)]

\* ------------------------------------------------------------ cyclic detector

\* push that takes any construction in progress for a cycle.
push_any(ctx, dependency_name) ==
    IF ctx # <<>>
    THEN [exc |-> CyclicDependencyException,
          cyclic_list |-> Append(ctx, dependency_name),
          ctx |-> ctx]
    ELSE [exc |-> NoExc, cyclic_list |-> <<>>, ctx |-> Append(ctx, dependency_name)]

\* push that reports the cycle without the closing name.
push_unclosed(ctx, dependency_name) ==
    IF \E k \in 1..Len(ctx) : ctx[k] = dependency_name
    THEN LET index_of_dependency == CHOOSE k \in 1..Len(ctx) :
                 /\ ctx[k] = dependency_name
                 /\ \A j \in 1..(k - 1) : ctx[j] # dependency_name
         IN [exc |-> CyclicDependencyException,
             cyclic_list |-> SubSeq(ctx, index_of_dependency, Len(ctx)),
             ctx |-> ctx]
    ELSE [exc |-> NoExc, cyclic_list |-> <<>>, ctx |-> Append(ctx, dependency_name)]

\* push that reports the whole list instead of the slice that starts at the
\* name's first occurrence.
push_unsliced(ctx, dependency_name) ==
    IF \E k \in 1..Len(ctx) : ctx[k] = dependency_name
    THEN [exc |-> CyclicDependencyException,
          cyclic_list |-> Append(ctx, dependency_name),
          ctx |-> ctx]
    ELSE [exc |-> NoExc, cyclic_list |-> <<>>, ctx |-> Append(ctx, dependency_name)]

\* push that looks for the name only at the top of the list.
push_adjacent(ctx, dependency_name) ==
    IF ctx # <<>> /\ ctx[Len(ctx)] = dependency_name
    THEN [exc |-> CyclicDependencyException,
          cyclic_list |-> <<dependency_name, dependency_name>>,
          ctx |-> ctx]
    ELSE [exc |-> NoExc, cyclic_list |-> <<>>, ctx |-> Append(ctx, dependency_name)]

\* DependencyCyclicDetector.push on the calling thread's list.
push(ctx, dependency_name) ==
    IF \E k \in 1..Len(ctx) : ctx[k] = dependency_name
    THEN LET index_of_dependency == CHOOSE k \in 1..Len(ctx) :
                 /\ ctx[k] = dependency_name
                 /\ \A j \in 1..(k - 1) : ctx[j] # dependency_name
         IN [exc |-> CyclicDependencyException,
             cyclic_list |-> Append(SubSeq(ctx, index_of_dependency, Len(ctx)), dependency_name),
             ctx |-> ctx]
    ELSE [exc |-> NoExc, cyclic_list |-> <<>>, ctx |-> Append(ctx, dependency_name)]

\* pop that checks the top of the list and leaves it there.
pop_kept(ctx, dependency_name) ==
    IF ctx = <<>> THEN [exc |-> InvalidStateException, ctx |-> ctx]
    ELSE IF ctx[Len(ctx)] # dependency_name
    THEN [exc |-> InvalidStateException, ctx |-> ctx]
    ELSE [exc |-> NoExc, ctx |-> ctx]

\* DependencyCyclicDetector.pop on the calling thread's list.
pop(ctx, dependency_name) ==
    IF ctx = <<>> THEN [exc |-> InvalidStateException, ctx |-> ctx]
    ELSE LET popped_dep_name == ctx[Len(ctx)]
             rest == SubSeq(ctx, 1, Len(ctx) - 1)
         IN IF popped_dep_name # dependency_name
            THEN [exc |-> InvalidStateException, ctx |-> rest]
            ELSE [exc |-> NoExc, ctx |-> rest]


\* ------------------------------------------------------------ lookup

\* An unwinding that leaves the with-blocks outermost first.
RECURSIVE unwind_outer_first(_, _, _)
unwind_outer_first(frs, ctx, e) ==
    IF frs = <<>> THEN [ctx |-> ctx, e |-> e]
    ELSE IF ~InBlock(frs[1]) THEN unwind_outer_first(Tail(frs), ctx, e)
    ELSE LET p == pop(ctx, frs[1].name)
         IN unwind_outer_first(Tail(frs), p.ctx,
                               IF p.exc # NoExc THEN [exc |-> p.exc, cyclic_list |-> <<>>] ELSE e)

\* An exception raised inside the calls frs propagates to the caller of the
\* outermost one: __exit__ of every with-block entered, innermost first,
\* pops the block's component name; an exception raised by pop replaces the
\* one in flight.  The other calls are left without more.
RECURSIVE unwind(_, _, _)
unwind(frs, ctx, e) ==
    IF frs = <<>> THEN [ctx |-> ctx, e |-> e]
    ELSE IF ~InBlock(frs[Len(frs)]) THEN unwind(SubSeq(frs, 1, Len(frs) - 1), ctx, e)
    ELSE LET p == pop(ctx, frs[Len(frs)].name)
         IN unwind(SubSeq(frs, 1, Len(frs) - 1), p.ctx,
                   IF p.exc # NoExc THEN [exc |-> p.exc, cyclic_list |-> <<>>] ELSE e)

\* The thread's call ends with the exception exc, raised inside the calls
\* frs with the detector list ctx.  No singleton of the frames gets its
\* _instance assigned.
raise(st, frs, ctx, exc, cyc) ==
    LET u == unwind(frs, ctx, [exc |-> exc, cyclic_list |-> cyc])
    IN [st EXCEPT !.frs = <<>>,
                  !.ctx = u.ctx,
                  !.res = Result(st.res.op, st.res.key, u.e.exc, NoInstance, u.e.cyclic_list)]

\* Container.setup returns None when its outermost frame has returned.
done(st) ==
    IF st.frs # <<>> THEN st
    ELSE [st EXCEPT !.res = Result(st.res.op, st.res.key, NoExc, NoInstance, <<>>)]

\* The Container object whose repository is st.rep[c].
Self(c) == IF c = "own" THEN ContainerObj ELSE OtherContainer

\* register_type, register_instance and register_types of container c end
\* with "return self" when the outermost frame has returned.
return_self(st, c) ==
    IF st.frs # <<>> THEN st
    ELSE [st EXCEPT !.res = Result(st.res.op, st.res.key, NoExc, Self(c), <<>>)]

\* A caller that collects the objects it is returned last first.
deliver_prepend(st, obj) ==
    IF st.frs = <<>>
    THEN [st EXCEPT !.res = Result(st.res.op, st.res.key, NoExc, obj, <<>>)]
    ELSE IF ~Top(st).called
    THEN [st EXCEPT !.frs[Len(st.frs)].args = <<obj>> \o @]
    ELSE [st EXCEPT !.frs[Len(st.frs)].looked = @ + 1]

\* get_object returns obj to its caller: get_component called from outside
\* when there is no frame; otherwise the innermost frame, which adds obj to
\* the argument list it is collecting or, when its constructor is running,
\* has the answer of the constructor's get_component call.
deliver(st, obj) ==
    IF st.frs = <<>>
    THEN [st EXCEPT !.res = Result(st.res.op, st.res.key, NoExc, obj, <<>>)]
    ELSE IF ~Top(st).called
    THEN [st EXCEPT !.frs[Len(st.frs)].args = Append(@, obj)]
    ELSE [st EXCEPT !.frs[Len(st.frs)].looked = @ + 1]

\* The frame of _create_component for the factory at position i of
\* container c, entered.
Entered(st, c, i) ==
    [Frame("enter", c) EXCEPT !.factory = i, !.name = st.rep[c].fs[i].component_name]

\* get_object of a singleton factory that never looks at _instance.
get_object_uncached(st, c, i) ==
    LET f == st.rep[c].fs[i]
    IN IF f.kind = "static" THEN deliver(st, f.instance)
       ELSE LET p == push(st.ctx, f.component_name)
            IN IF p.exc # NoExc THEN raise(st, st.frs, p.ctx, p.exc, p.cyclic_list)
               ELSE [Invoke(st, Entered(st, c, i)) EXCEPT !.ctx = p.ctx]

\* get_object of a singleton factory that asserts the factory is initialized
\* before the with-block is entered, so that nothing pops the pushed name.
get_object_unreleased(st, c, i) ==
    LET f == st.rep[c].fs[i]
    IN IF f.kind = "static" THEN deliver(st, f.instance)
       ELSE IF f.instance # NoInstance THEN deliver(st, f.instance)
       ELSE LET p == push(st.ctx, f.component_name)
            IN IF p.exc # NoExc THEN raise(st, st.frs, p.ctx, p.exc, p.cyclic_list)
               ELSE IF ~f.initialized
               THEN raise(st, st.frs, p.ctx, InvalidStateException, <<>>)
               ELSE [Invoke(st, Entered(st, c, i)) EXCEPT !.ctx = p.ctx]

\* get_object of a singleton factory that assigns _instance when it enters
\* _create_component, before the requirements are collected.
get_object_precached(st, c, i) ==
    LET f == st.rep[c].fs[i]
    IN IF f.kind = "static" THEN deliver(st, f.instance)
       ELSE IF f.instance # NoInstance THEN deliver(st, f.instance)
       ELSE LET p == push(st.ctx, f.component_name)
            IN IF p.exc # NoExc THEN raise(st, st.frs, p.ctx, p.exc, p.cyclic_list)
               ELSE [Invoke(st, Entered(st, c, i)) EXCEPT
                         !.ctx = p.ctx,
                         !.rep[c].fs[i].instance =
                             Instance(f.component_type, f.component_name,
                                      f.constructed + 1, <<>>)]

\* get_object of a singleton factory that, finding the factory not
\* initialized, marks it initialized with nothing wired and goes on.
get_object_readying(st, c, i) ==
    LET f == st.rep[c].fs[i]
    IN IF f.kind = "static" THEN deliver(st, f.instance)
       ELSE IF f.instance # NoInstance THEN deliver(st, f.instance)
       ELSE LET p == push(st.ctx, f.component_name)
            IN IF p.exc # NoExc THEN raise(st, st.frs, p.ctx, p.exc, p.cyclic_list)
               ELSE IF f.initialized
               THEN [Invoke(st, Entered(st, c, i)) EXCEPT !.ctx = p.ctx]
               ELSE [Invoke(st, Entered(st, c, i)) EXCEPT
                         !.ctx = p.ctx,
                         !.rep[c].fs[i].initialized = TRUE,
                         !.rep[c].fs[i].init_factories = <<>>]

\* factory.get_object() up to the with-block of _create_component.
\* StaticComponentFactory.get_object returns the instance.
\* SingletonComponentFactory.get_object reads _instance and returns it when
\* there is one; otherwise it calls _create_component, where __enter__
\* pushes the component name (CyclicDependencyException leaves the
\* with-block unentered, so nothing is popped for this factory).
\* PrototypeComponentFactory.get_object calls _create_component every time.
get_object(st, c, i) ==
    LET f == st.rep[c].fs[i]
    IN IF f.kind = "static" THEN deliver(st, f.instance)
       ELSE IF f.instance # NoInstance THEN deliver(st, f.instance)
       ELSE LET p == push(st.ctx, f.component_name)
            IN IF p.exc # NoExc THEN raise(st, st.frs, p.ctx, p.exc, p.cyclic_list)
               ELSE [Invoke(st, Entered(st, c, i)) EXCEPT !.ctx = p.ctx]

\* The end of _create_component where get_object looks at _instance again
\* when the constructor has returned, and keeps the instance it finds.
construct_once(st) ==
    LET fr == Top(st)
        c == fr.container
        i == fr.factory
        f == st.rep[c].fs[i]
        obj == Instance(f.component_type, f.component_name, f.constructed + 1, fr.args)
        p == pop(st.ctx, f.component_name)
    IN IF p.exc # NoExc
       THEN raise([st EXCEPT !.rep[c].fs[i].constructed = @ + 1], Outer(st), p.ctx, p.exc, <<>>)
       ELSE IF f.kind = "prototype"
       THEN deliver(Return([st EXCEPT !.ctx = p.ctx, !.rep[c].fs[i].constructed = @ + 1]), obj)
       ELSE IF f.instance # NoInstance
       THEN [Replace(st, [fr EXCEPT !.pc = "return"]) EXCEPT
                 !.ctx = p.ctx,
                 !.rep[c].fs[i].constructed = @ + 1]
       ELSE [Replace(st, [fr EXCEPT !.pc = "return"]) EXCEPT
                 !.ctx = p.ctx,
                 !.rep[c].fs[i].instance = obj,
                 !.rep[c].fs[i].constructed = @ + 1]

\* The end of _create_component for the innermost frame, and the assignment
\* of SingletonComponentFactory.get_object: the constructor returns the new
\* object, __exit__ pops the name (an exception of pop replaces the return),
\* and the object is assigned to _instance.  PrototypeComponentFactory's
\* get_object assigns nothing and returns the new object to its caller.
construct(st) ==
    LET fr == Top(st)
        c == fr.container
        i == fr.factory
        f == st.rep[c].fs[i]
        obj == Instance(f.component_type, f.component_name, f.constructed + 1, fr.args)
        p == pop(st.ctx, f.component_name)
    IN IF p.exc # NoExc
       THEN raise([st EXCEPT !.rep[c].fs[i].constructed = @ + 1], Outer(st), p.ctx, p.exc, <<>>)
       ELSE IF f.kind = "prototype"
       THEN deliver(Return([st EXCEPT !.ctx = p.ctx, !.rep[c].fs[i].constructed = @ + 1]), obj)
       ELSE [Replace(st, [fr EXCEPT !.pc = "return"]) EXCEPT
                 !.ctx = p.ctx,
                 !.rep[c].fs[i].instance = obj,
                 !.rep[c].fs[i].constructed = @ + 1]

\* The last statement of SingletonComponentFactory.get_object: _instance is
\* read again and what it holds then is returned.
get_object_return(st) ==
    LET fr == Top(st)
    IN deliver(Return(st), st.rep[fr.container].fs[fr.factory].instance)

\* get_component without the quick check of Repository.exist for a type.
get_component_unchecked(st, c, key) ==
    LET r == st.rep[c]
    IN IF key.kind = "str"
       THEN LET factory == find_by_name(r.byname, key.v)
            IN IF factory = 0
               THEN raise(st, st.frs, st.ctx, UnknownComponentException, <<>>)
               ELSE get_object(st, c, factory)
       ELSE IF key.kind = "type"
       THEN Invoke(st, [Frame("iterate", c) EXCEPT !.key = key,
                                                    !.caller = "get_component",
                                                    !.size = Cardinality(DOMAIN r.byname)])
       ELSE raise(st, st.frs, st.ctx, InvalidArgumentException, <<>>)

\* Container.get_component(key) on container c.  For a name: find_by_name,
\* then get_object of the factory found.  For a type: the check of
\* Repository.exist, then find_by_type, whose list comprehension starts to
\* iterate the dictionary.  Called by a constructor, the call is nested in
\* the frames of st, which an exception unwinds.
get_component(st, c, key) ==
    LET r == st.rep[c]
    IN IF key.kind = "str"
       THEN LET factory == find_by_name(r.byname, key.v)
            IN IF factory = 0
               THEN raise(st, st.frs, st.ctx, UnknownComponentException, <<>>)
               ELSE get_object(st, c, factory)
       ELSE IF key.kind = "type"
       THEN IF ~exist(r.byname, r.types, key).value
            THEN raise(st, st.frs, st.ctx, UnknownComponentException, <<>>)
            ELSE Invoke(st, [Frame("iterate", c) EXCEPT !.key = key,
                                                         !.caller = "get_component",
                                                         !.size = Cardinality(DOMAIN r.byname)])
       ELSE raise(st, st.frs, st.ctx, InvalidArgumentException, <<>>)

\* A pass of the loop of post_init that takes the first factory of the type
\* when there are several.
resolve_by_type_first(found) ==
    IF Len(found) = 0 THEN [exc |-> UnknownComponentException, factory |-> 0]
    ELSE [exc |-> NoExc, factory |-> found[1]]

\* The loop of post_init with the list find_by_type returned: the only
\* factory of the type.
resolve_by_type(found) ==
    IF Len(found) = 0 THEN [exc |-> UnknownComponentException, factory |-> 0]
    ELSE IF Len(found) > 1 THEN [exc |-> TooManyDefinitionsException, factory |-> 0]
    ELSE [exc |-> NoExc, factory |-> found[1]]

\* Repository.find_by_type, one step.  First the iterator over the
\* dictionary is made.  Then the comprehension runs to its end: the iterator
\* raises RuntimeError when the dictionary has changed size since it was
\* made; otherwise the list goes to the caller.  get_component raises
\* TooManyDefinitionsException for several factories, IndexError
\* (factories[0]) for none, and goes on to get_object of the only one;
\* post_init keeps the only one for its requirement.
find_by_type_step(st) ==
    LET fr == Top(st)
        r == st.rep[fr.container]
        found == find_by_type(r.fs, r.byname, fr.key.v)
    IN IF fr.pc = "find"
       THEN Replace(st, [fr EXCEPT !.pc = "iterate", !.size = Cardinality(DOMAIN r.byname)])
       ELSE IF Cardinality(DOMAIN r.byname) # fr.size
       THEN raise(st, st.frs, st.ctx, RuntimeError, <<>>)
       ELSE IF fr.caller = "post_init"
       THEN LET by_type == resolve_by_type(found)
            IN IF by_type.exc # NoExc
               THEN raise(st, st.frs, st.ctx, by_type.exc, <<>>)
               ELSE [Return(st) EXCEPT !.frs[Len(st.frs) - 1].found = by_type.factory]
       ELSE IF Len(found) > 1
       THEN raise(st, st.frs, st.ctx, TooManyDefinitionsException, <<>>)
       ELSE IF Len(found) = 0
       THEN raise(st, st.frs, st.ctx, IndexError, <<>>)
       ELSE Replace(st, [fr EXCEPT !.pc = "found", !.factory = found[1]])

\* The list the frame fr of _create_component iterates.
Iterated(st, fr) ==
    IF fr.live THEN st.rep[fr.container].fs[fr.factory].init_factories ELSE fr.list

\* The get_component call the constructor of the frame fr makes next.
NextLookup(st, fr) ==
    Lookups(st.rep[fr.container].fs[fr.factory].component_type)[fr.looked + 1]

\* _create_component where a get_component call made by the constructor
\* starts from an empty detector list.
create_component_step_fresh(st) ==
    LET fr == Top(st)
        c == fr.container
        f == st.rep[c].fs[fr.factory]
    IN IF fr.pc = "enter"
       THEN IF ~f.initialized
            THEN raise(st, st.frs, st.ctx, InvalidStateException, <<>>)
            ELSE Replace(st, [fr EXCEPT !.pc = "create"])
       ELSE IF ~fr.called /\ Len(fr.args) < Len(Iterated(st, fr))
       THEN get_object(st, c, Iterated(st, fr)[Len(fr.args) + 1])
       ELSE IF ~fr.called /\ ~accepts(f.component_type, Len(fr.args))
       THEN raise(st, st.frs, st.ctx, TypeError, <<>>)
       ELSE IF ~fr.called
       THEN Replace(st, [fr EXCEPT !.called = TRUE, !.live = TRUE, !.list = <<>>])
       ELSE IF fr.looked < Len(Lookups(f.component_type))
       THEN get_component([st EXCEPT !.ctx = <<>>],
                          IF NextLookup(st, fr).container = "own" THEN c ELSE OtherOf(c),
                          NextLookup(st, fr).key)
       ELSE construct(st)

\* One step of _create_component for the innermost frame.  Entered:
\* _assert_initialized, and the list _init_factories is taken to be
\* iterated.  Then, for every factory the list yields, get_object of it.
\* When the list yields no more, the constructor is called with the
\* instances collected (TypeError when the call does not bind to the
\* constructor's parameters).  Then the constructor's get_component calls,
\* one a step, on its own container or on the other one.  Then the rest of
\* the construction.
create_component_step(st) ==
    LET fr == Top(st)
        c == fr.container
        f == st.rep[c].fs[fr.factory]
    IN IF fr.pc = "enter"
       THEN IF ~f.initialized
            THEN raise(st, st.frs, st.ctx, InvalidStateException, <<>>)
            ELSE Replace(st, [fr EXCEPT !.pc = "create"])
       ELSE IF ~fr.called /\ Len(fr.args) < Len(Iterated(st, fr))
       THEN get_object(st, c, Iterated(st, fr)[Len(fr.args) + 1])
       ELSE IF ~fr.called /\ ~accepts(f.component_type, Len(fr.args))
       THEN raise(st, st.frs, st.ctx, TypeError, <<>>)
       ELSE IF ~fr.called
       THEN Replace(st, [fr EXCEPT !.called = TRUE, !.live = TRUE, !.list = <<>>])
       ELSE IF fr.looked < Len(Lookups(f.component_type))
       THEN get_component(st,
                          IF NextLookup(st, fr).container = "own" THEN c ELSE OtherOf(c),
                          NextLookup(st, fr).key)
       ELSE construct(st)

\* ------------------------------------------------------------ registration

\* register_factory that binds the name again instead of raising.
register_factory_rebinding(st, c, component_name, factory) ==
    Invoke([st EXCEPT !.rep[c].fs = Append(@, factory)],
           [Frame("register_factory", c) EXCEPT !.factory = Len(st.rep[c].fs) + 1,
                                                !.name = component_name,
                                                !.idx = 1])

\* Repository.register_factory(component_name, factory) up to its first
\* write: NameAlreadyDefinedException when the dictionary has the name.
\* The factory object, which the caller has made, gets its place in fs.
register_factory(st, c, component_name, factory) ==
    IF component_name \in DOMAIN st.rep[c].byname
    THEN raise(st, st.frs, st.ctx, NameAlreadyDefinedException, <<>>)
    ELSE Invoke([st EXCEPT !.rep[c].fs = Append(@, factory)],
                [Frame("register_factory", c) EXCEPT !.factory = Len(st.rep[c].fs) + 1,
                                                     !.name = component_name,
                                                     !.idx = 1])

\* The three writes of Repository.register_factory, one a step: the
\* dictionary entry, the list's new element, the set's new type.  After the
\* last the call returns, and so does register_types when that was its last
\* argument: None where register_factory was called on the repository, self
\* where a register call of the container made it.
register_factory_step(st) ==
    LET fr == Top(st)
        c == fr.container
        r == st.rep[c]
        back == Return(st)
    IN IF fr.idx = 1
       THEN [Replace(st, [fr EXCEPT !.idx = 2]) EXCEPT
                 !.rep[c].byname = [n \in DOMAIN r.byname \cup {fr.name} |->
                                        IF n = fr.name THEN fr.factory ELSE r.byname[n]]]
       ELSE IF fr.idx = 2
       THEN [Replace(st, [fr EXCEPT !.idx = 3]) EXCEPT
                 !.rep[c].list = Append(@, fr.factory)]
       ELSE LET written == [(IF back.frs # <<>> /\ Top(back).rest = <<>>
                              THEN Return(back) ELSE back)
                                 EXCEPT !.rep[c].types = @ \cup {r.fs[fr.factory].component_type}]
            IN IF st.res.op = "register_factory" THEN done(written)
               ELSE return_self(written, c)

\* Container.register_type(component_type, component_name) up to the first
\* write of register_factory.
register_type(st, c, component_type, component_name) ==
    LET name == IF component_name = NoName
                THEN to_component_name(component_type) ELSE component_name
        requirements == generate_dependency_list(InitParams(component_type))
    IN register_factory(st, c, name,
                        SingletonComponentFactory(name, component_type, requirements))

\* Container.register_instance(instance, component_name) up to the first
\* write of register_factory.
register_instance(st, c, instance, component_name) ==
    register_factory(st, c, component_name, StaticComponentFactory(component_name, instance))

\* The second loop of Container.register_types: register_type of the next
\* argument.
register_types_step(st) ==
    LET fr == Top(st)
    IN register_type(Replace(st, [fr EXCEPT !.rest = Tail(fr.rest)]),
                     fr.container, Head(fr.rest), NoName)

\* Container.register_types(first_arg, *rest_args) up to the first write:
\* InvalidArgumentException when an argument is not a type, before anything
\* is registered.
register_types(st, c, all_args) ==
    IF \E idx \in 1..Len(all_args) : all_args[idx] \notin Types
    THEN raise(st, st.frs, st.ctx, InvalidArgumentException, <<>>)
    ELSE register_types_step(Invoke(st, [Frame("register_types", c) EXCEPT !.rest = all_args]))

\* ------------------------------------------------------------ wiring

\* A pass of the loop that looks requirements up by type only.
resolve_by_name_unnamed(fs, byname, req) == [exc |-> NoExc, factory |-> 0]

\* A pass of the loop that looks the requirement up by type when the factory
\* of its name is of another type.
resolve_by_name_fallback(fs, byname, req) ==
    LET named == IF req.component_name # NoName
                 THEN find_by_name(byname, req.component_name) ELSE 0
    IN IF named # 0 /\ is_type_of(fs[named], req.component_type)
       THEN [exc |-> NoExc, factory |-> named]
       ELSE [exc |-> NoExc, factory |-> 0]

\* The loop of post_init up to "if factory is None": the factory of the
\* requirement's name, TypeMismatchException when that is of another type,
\* 0 (None) when the name is unknown.
resolve_by_name(fs, byname, req) ==
    LET named == IF req.component_name # NoName
                 THEN find_by_name(byname, req.component_name) ELSE 0
    IN IF named # 0 /\ ~is_type_of(fs[named], req.component_type)
       THEN [exc |-> TypeMismatchException, factory |-> 0]
       ELSE [exc |-> NoExc, factory |-> named]

\* AbstractCreatingComponentFactory.post_init of the factory at position
\* factory, one step.  A requirement whose name the dictionary has is
\* resolved and appended to _init_factories; another is looked up by
\* find_by_type, and the factory that returns is appended in a step of its
\* own.  After the last requirement the factory is initialized and the loop
\* of setup goes on.  An exception ends setup and leaves the list as far as
\* it got and the initialized flag as it was.
post_init_step(st) ==
    LET fr == Top(st)
        c == fr.container
        i == fr.factory
        r == st.rep[c]
        f == r.fs[i]
        by_name == resolve_by_name(r.fs, r.byname, f.requirements[fr.idx])
    IN IF fr.found # 0
       THEN [Replace(st, [fr EXCEPT !.found = 0, !.idx = @ + 1]) EXCEPT
                 !.rep[c].fs[i].init_factories = Append(@, fr.found)]
       ELSE IF fr.idx > Len(f.requirements)
       THEN [Replace(st, [Frame("setup", c) EXCEPT !.pos = fr.pos + 1]) EXCEPT
                 !.rep[c].fs[i].initialized = TRUE]
       ELSE IF by_name.exc # NoExc
       THEN raise(st, st.frs, st.ctx, by_name.exc, <<>>)
       ELSE IF by_name.factory # 0
       THEN [Replace(st, [fr EXCEPT !.idx = @ + 1]) EXCEPT
                 !.rep[c].fs[i].init_factories = Append(@, by_name.factory)]
       ELSE Invoke(st, [Frame("find", c) EXCEPT
                            !.key = TypeKey(f.requirements[fr.idx].component_type),
                            !.caller = "post_init"])

\* The loop of Container.setup, one step: ComponentFactory.post_init of a
\* static factory does nothing; post_init of another factory starts with a
\* new, empty list for _init_factories; past the last factory of the list
\* setup returns.
RECURSIVE setup_step(_)
setup_step(st) ==
    LET fr == Top(st)
        c == fr.container
        r == st.rep[c]
        i == r.list[fr.pos]
    IN IF fr.pos > Len(r.list) THEN done(Return(st))
       ELSE IF r.fs[i].kind = "static"
       THEN setup_step(Replace(st, [fr EXCEPT !.pos = @ + 1]))
       ELSE [Replace(st, [Frame("post_init", c) EXCEPT !.pos = fr.pos,
                                                       !.factory = i,
                                                       !.idx = 1]) EXCEPT
                 !.rep[c].fs[i].init_factories = <<>>,
                 !.stale = [container |-> c, factory |-> i, list |-> r.fs[i].init_factories]]

\* Container.setup() up to the first write.
setup(st, c) == setup_step(Invoke(st, [Frame("setup", c) EXCEPT !.pos = 1]))

\* ------------------------------------------------------------ steps

\* The next step of the innermost call of a thread.
step(st) ==
    LET fr == Top(st)
    IN CASE fr.pc = "register_types" -> register_types_step(st)
         [] fr.pc = "register_factory" -> register_factory_step(st)
         [] fr.pc = "setup" -> setup_step(st)
         [] fr.pc = "post_init" -> post_init_step(st)
         [] fr.pc \in {"find", "iterate"} -> find_by_type_step(st)
         [] fr.pc = "found" -> get_object(Return(st), fr.container, fr.factory)
         [] fr.pc \in {"enter", "create"} -> create_component_step(st)
         [] fr.pc = "return" -> get_object_return(st)

\* A whole call from st on, uninterrupted: steps until the call has returned
\* or raised.
RECURSIVE run_to_end(_)
run_to_end(st) == IF st.frs = <<>> THEN st ELSE run_to_end(step(st))

\* Container.__init__: an empty repository with the container (self)
\* registered in it under CONTAINER_COMPONENT_NAME.
Container(self) ==
    Repo(<<StaticComponentFactory(CONTAINER_COMPONENT_NAME, self)>>, <<1>>,
         (CONTAINER_COMPONENT_NAME :> 1), {"Container"})

\* The second container after Container(), register_type(L, 'x') and
\* setup().
OtherRegistered ==
    LET made == [own |-> Container(ContainerObj), other |-> Container(OtherContainer)]
        call == Result("none", NoKey, Pending, NoInstance, <<>>)
        registered == run_to_end(register_type(Running(made, <<>>, <<>>, call), "other", "L", "x"))
    IN run_to_end(setup(Running(registered.rep, <<>>, <<>>, call), "other")).rep.other

\* No second container: a repository that is never looked at.
NoContainer == Repo(<<>>, <<>>, <<>>, {})

\* The repositories of the two containers.
Reps ==
    [own |-> Repo(heap, factories, factory_by_name, available_component_types),
     other |-> other]

\* The frames of another thread after a step in which post_init replaced a
\* list: the frames that iterate the list go on with the list object they
\* hold, which nothing appends to any more.
Freeze(frs, stale) ==
    [k \in 1..Len(frs) |->
        IF /\ frs[k].pc = "create"
           /\ ~frs[k].called
           /\ frs[k].live
           /\ frs[k].container = stale.container
           /\ frs[k].factory = stale.factory
        THEN [frs[k] EXCEPT !.live = FALSE, !.list = stale.list]
        ELSE frs[k]]

\* The variables after a step of thread t where the detector keeps one list
\* for all threads.
Becomes_shared(t, st) ==
    /\ heap' = st.rep.own.fs
    /\ factories' = st.rep.own.list
    /\ factory_by_name' = st.rep.own.byname
    /\ available_component_types' = st.rep.own.types
    /\ other' = st.rep.other
    /\ frames' = [u \in Threads |-> IF u = t THEN st.frs ELSE Freeze(frames[u], st.stale)]
    /\ context' = [u \in Threads |-> st.ctx]
    /\ result' = [result EXCEPT ![t] = st.res]

\* The variables after a step of thread t that ends in st.
Becomes(t, st) ==
    /\ heap' = st.rep.own.fs
    /\ factories' = st.rep.own.list
    /\ factory_by_name' = st.rep.own.byname
    /\ available_component_types' = st.rep.own.types
    /\ other' = st.rep.other
    /\ frames' = [u \in Threads |-> IF u = t THEN st.frs ELSE Freeze(frames[u], st.stale)]
    /\ context' = [context EXCEPT ![t] = st.ctx]
    /\ result' = [result EXCEPT ![t] = st.res]

\* Thread t about to make a call, and thread t in its call.
Calling(t, op, key) ==
    Running(Reps, <<>>, context[t], Result(op, key, Pending, NoInstance, <<>>))

Thread(t) == Running(Reps, frames[t], context[t], result[t])

\* ------------------------------------------------------------ actions

\* Container.__init__
Init ==
    /\ heap = Container(ContainerObj).fs
    /\ factories = Container(ContainerObj).list
    /\ factory_by_name = Container(ContainerObj).byname
    /\ available_component_types = Container(ContainerObj).types
    /\ context = [t \in Threads |-> <<>>]
    /\ frames = [t \in Threads |-> <<>>]
    /\ result = [t \in Threads |-> NoResult]
    /\ other = NoContainer

\* Thread t calls Container.register_type(component_type, component_name).
RegisterType(t, component_type, component_name) ==
    /\ Idle(t)
    /\ LET name == IF component_name = NoName
                   THEN to_component_name(component_type) ELSE component_name
           st == register_type(Calling(t, "register_type", StrKey(name)), "own",
                               component_type, component_name)
       IN /\ Len(st.rep.own.fs) <= MaxFactories
          /\ Becomes(t, st)

\* Thread t calls Container.register_instance(instance, component_name).
RegisterInstance(t, instance, component_name) ==
    /\ Idle(t)
    /\ LET st == register_instance(Calling(t, "register_instance", StrKey(component_name)),
                                   "own", instance, component_name)
       IN /\ Len(st.rep.own.fs) <= MaxFactories
          /\ Becomes(t, st)

\* Thread t calls Container.register_types(*all_args).
RegisterTypes(t, all_args) ==
    /\ Idle(t)
    /\ Len(heap) + Len(all_args) <= MaxFactories
    /\ Becomes(t, register_types(Calling(t, "register_types", NoKey), "own", all_args))

\* Thread t calls Repository.register_factory(component_name, factory) on
\* the container's repository, with a PrototypeComponentFactory made for
\* component_type and the requirements of its constructor.
RegisterPrototype(t, component_type, component_name) ==
    /\ Idle(t)
    /\ LET requirements == generate_dependency_list(InitParams(component_type))
           st == register_factory(Calling(t, "register_factory", StrKey(component_name)), "own",
                                  component_name,
                                  PrototypeComponentFactory(component_name, component_type,
                                                            requirements))
       IN /\ Len(st.rep.own.fs) <= MaxFactories
          /\ Becomes(t, st)

\* Thread t goes on with the registration it is in.
RegisterFactory(t) ==
    /\ ~Idle(t)
    /\ Top(Thread(t)).pc \in {"register_types", "register_factory"}
    /\ Becomes(t, step(Thread(t)))

\* Thread t calls Container.exist(key), which is Repository.exist(key).
Exist(t, key) ==
    /\ Idle(t)
    /\ LET answer == exist(factory_by_name, available_component_types, key)
       IN result' = [result EXCEPT ![t] =
              Result("exist", key, answer.exc,
                     IF answer.exc = NoExc THEN BoolObj(answer.value) ELSE NoInstance, <<>>)]
    /\ UNCHANGED <<heap, factories, factory_by_name, available_component_types, context,
                   frames, other>>

\* Thread t calls Container.setup().
Setup(t) ==
    /\ Idle(t)
    /\ Becomes(t, setup(Calling(t, "setup", NoKey), "own"))

\* Thread t goes on with the setup it is in.
PostInit(t) ==
    /\ ~Idle(t)
    /\ Top(Thread(t)).pc \in {"setup", "post_init"}
    /\ Becomes(t, step(Thread(t)))

\* Thread t goes on with the find_by_type it is in.
FindByType(t) ==
    /\ ~Idle(t)
    /\ Top(Thread(t)).pc \in {"find", "iterate"}
    /\ Becomes(t, step(Thread(t)))

\* Thread t calls Container.get_component(key).  The number of objects a
\* prototype factory makes is kept within MaxObjects.
GetComponent(t, key) ==
    /\ Idle(t)
    /\ \A i \in 1..Len(heap) : heap[i].kind = "prototype" => heap[i].constructed < MaxObjects
    /\ Becomes(t, get_component(Calling(t, "get_component", key), "own", key))

\* Thread t goes on with the get_object it is in.
CreateComponent(t) ==
    /\ ~Idle(t)
    /\ Top(Thread(t)).pc \in {"found", "enter", "create", "return"}
    /\ Becomes(t, step(Thread(t)))

\* ------------------------------------------------------------ specification

Next ==
    \E t \in MainThreads :
        \/ \E cls \in Classes, n \in TypeNames : RegisterType(t, cls, n)
        \/ \E all_args \in TypeLists : RegisterTypes(t, all_args)
        \/ \E obj \in StaticObjects, n \in InstanceNames : RegisterInstance(t, obj, n)
        \/ RegisterFactory(t)
        \/ \E key \in ExistKeys : Exist(t, key)
        \/ Setup(t)
        \/ PostInit(t)
        \/ \E key \in Keys : GetComponent(t, key)
        \/ FindByType(t)
        \/ CreateComponent(t)

Spec == Init /\ [][Next]_vars

\* The same container, where prototype factories are also registered in its
\* repository.
NextPrototype ==
    \/ Next
    \/ \E t \in MainThreads :
           \E prototype \in Prototypes : RegisterPrototype(t, prototype[1], prototype[2])

SpecPrototype == Init /\ [][NextPrototype]_vars

\* The same container, with the classes, objects and keys of the injection
\* universe.
NextInject ==
    \E t \in MainThreads :
        \/ \E cls \in InjectClasses : RegisterType(t, cls, NoName)
        \/ \E obj \in InjectObjects, n \in InjectInstanceNames : RegisterInstance(t, obj, n)
        \/ RegisterFactory(t)
        \/ Setup(t)
        \/ PostInit(t)
        \/ \E key \in InjectKeys : GetComponent(t, key)
        \/ FindByType(t)
        \/ CreateComponent(t)

SpecInject == Init /\ [][NextInject]_vars

\* The classes, names and keys of the calls made where two threads use the
\* container: L, C (which requires an A, so an L) and A registered under
\* "b", which requires itself.
ThreadClasses == {"L", "C", "A"}
ThreadTypeNames == {NoName, "b"}
ThreadKeys == {TypeKey("L"), TypeKey("C"), StrKey("b")}

\* The container is registered with and set up by one thread and
\* get_component is called by every thread; a thread runs whenever it is
\* scheduled, between any two steps of another.
NextThreads ==
    \/ \E t \in MainThreads :
           \/ \E cls \in ThreadClasses, n \in ThreadTypeNames : RegisterType(t, cls, n)
           \/ RegisterFactory(t)
           \/ Setup(t)
           \/ PostInit(t)
    \/ \E t \in Threads :
           \/ \E key \in ThreadKeys : GetComponent(t, key)
           \/ FindByType(t)
           \/ CreateComponent(t)

SpecThreads == Init /\ [][NextThreads]_vars

\* The container of Spec where a thread that is in a call goes on with it:
\* the call is synchronous code of the calling thread, which runs to its
\* return or to an exception without waiting for anything.
SpecLive ==
    /\ Init
    /\ [][Next]_vars
    /\ \A t \in MainThreads :
           /\ WF_vars(RegisterFactory(t))
           /\ WF_vars(PostInit(t))
           /\ WF_vars(FindByType(t))
           /\ WF_vars(CreateComponent(t))

\* Two containers: the one of Init, and a second one that is set up and
\* holds L under the name x.
InitLookup ==
    /\ heap = Container(ContainerObj).fs
    /\ factories = Container(ContainerObj).list
    /\ factory_by_name = Container(ContainerObj).byname
    /\ available_component_types = Container(ContainerObj).types
    /\ context = [t \in Threads |-> <<>>]
    /\ frames = [t \in Threads |-> <<>>]
    /\ result = [t \in Threads |-> NoResult]
    /\ other = OtherRegistered

\* The first container with classes whose constructors call get_component,
\* on it or on the second container.
NextLookups ==
    \E t \in MainThreads :
        \/ \E cls \in LookupClasses : RegisterType(t, cls, NoName)
        \/ RegisterFactory(t)
        \/ Setup(t)
        \/ PostInit(t)
        \/ \E key \in LookupKeys : GetComponent(t, key)
        \/ FindByType(t)
        \/ CreateComponent(t)

SpecLookup == InitLookup /\ [][NextLookups]_vars

\* ------------------------------------------------------------ properties

Positions == 1..Len(heap)

Singletons == {i \in Positions : heap[i].kind = "singleton"}

\* The elements of a sequence.
Range(seq) == {seq[k] : k \in 1..Len(seq)}

\* The thread's last call was get_component and it has returned or raised.
Done(t) == result[t].op = "get_component" /\ result[t].exc # Pending

Returned(t) == Done(t) /\ result[t].exc = NoExc

\* The key names the factory at position i: its component name, or a
\* registered type that only this factory produces.
Denotes(key, i) ==
    \/ /\ key.kind = "str"
       /\ key.v \in DOMAIN factory_by_name
       /\ factory_by_name[key.v] = i
    \/ /\ key.kind = "type"
       /\ key.v \in available_component_types
       /\ find_by_type(heap, factory_by_name, key.v) = <<i>>

\* C1 (state part): a singleton's constructor has run at most once, and
\* exactly once when the singleton has an instance; a singleton that has an
\* instance is not under construction (no _create_component call of it is
\* active, and its name is not on the detector's list),
\* so a call for it pushes nothing and visits no requirement; and a
\* get_component call that returned, by name or by type, returned the
\* factory's one instance.
C1State ==
    /\ \A i \in Singletons :
          /\ heap[i].constructed <= 1
          /\ (heap[i].instance # NoInstance) <=> (heap[i].constructed = 1)
          /\ heap[i].instance # NoInstance =>
                /\ \A t \in Threads : \A k \in 1..Len(frames[t]) :
                      InBlock(frames[t][k]) => frames[t][k].factory # i
                /\ \A t \in Threads : heap[i].component_name \notin Range(context[t])
    /\ \A t \in Threads : \A i \in Singletons :
          Returned(t) /\ Denotes(result[t].key, i) =>
              /\ result[t].obj = heap[i].instance
              /\ result[t].obj # NoInstance

\* C1 (step part): a singleton's instance, once there, is never replaced.
C1Step ==
    \A i \in Singletons :
        heap[i].instance # NoInstance => heap'[i].instance = heap[i].instance

\* C1: after setup, get_component of a component registered by type returns
\* the identical instance on every call of a thread, the constructor runs
\* once, on the first call, and later calls push nothing on the detector's
\* list and produce no requirement.
C1_SingletonIdentity == []C1State /\ [][C1Step]_vars

\* C1 witness: a get_component by type has returned the instance that an
\* already constructed singleton holds as its requirement, so the instance
\* was there before this call.
C1_Witness ==
    \E i, j \in Singletons :
        /\ i # j
        /\ heap[i].instance # NoInstance
        /\ heap[i].instance.args = <<heap[j].instance>>
        /\ Returned(1)
        /\ result[1].key.kind = "type"
        /\ Denotes(result[1].key, j)
        /\ result[1].obj = heap[j].instance

\* Every creating factory is ready and has one resolved factory per
\* requirement: the state a successful setup leaves.
FullyWired ==
    \A i \in Singletons :
        /\ heap[i].initialized
        /\ heap[i].init_factories # NoneFactories
        /\ Len(heap[i].init_factories) = Len(heap[i].requirements)

\* A singleton that has no instance yet.
Unbuilt(i) == i \in Singletons /\ heap[i].instance = NoInstance

\* The wired requirement graph: the factories that the factory at position i
\* produces its requirements from.
Wired(i) ==
    IF i \in Singletons /\ heap[i].init_factories # NoneFactories
    THEN Range(heap[i].init_factories) ELSE {}

\* The same, among the singletons that have no instance yet.
WiredUnbuilt(i) == IF Unbuilt(i) THEN {j \in Wired(i) : Unbuilt(j)} ELSE {}

\* The positions reachable from those of S in up to n steps of the graph
\* (the unbuilt part of it when unbuilt is TRUE).
RECURSIVE Reach(_, _, _)
Reach(S, n, unbuilt) ==
    IF n = 0 THEN S
    ELSE Reach(S \cup UNION {IF unbuilt THEN WiredUnbuilt(i) ELSE Wired(i) : i \in S},
               n - 1, unbuilt)

CycleReachable(i) ==
    \E j \in Reach({i}, Len(heap), FALSE) :
        j \in Reach(Wired(j), Len(heap), FALSE)

UnbuiltCycleReachable(i) ==
    /\ Unbuilt(i)
    /\ \E j \in Reach({i}, Len(heap), TRUE) :
          j \in Reach(WiredUnbuilt(j), Len(heap), TRUE)

Named(n) == heap[factory_by_name[n]]

\* A requires B, B requires C, C requires A: the factories at positions ia,
\* ib, ic are those of components a, b, c of types A, B, C, each ready and
\* wired to the next.
ThreeCycle(ia, ib, ic) ==
    /\ heap[ia].component_name = "a" /\ heap[ia].component_type = "A"
    /\ heap[ib].component_name = "b" /\ heap[ib].component_type = "B"
    /\ heap[ic].component_name = "c" /\ heap[ic].component_type = "C"
    /\ \A i \in {ia, ib, ic} : heap[i].initialized
    /\ heap[ia].init_factories = <<ib>>
    /\ heap[ib].init_factories = <<ic>>
    /\ heap[ic].init_factories = <<ia>>

\* C3 as stated: with A, B, C wired in a cycle, get_component of any of the
\* three fails with CyclicDependencyException whose cyclic_list is
\* [a, b, c, a], whichever is requested.
C3_AsStated ==
    \A t \in Threads : \A ia, ib, ic \in Positions :
        ThreeCycle(ia, ib, ic) /\ Done(t)
        /\ (\E i \in {ia, ib, ic} : Denotes(result[t].key, i)) =>
            /\ result[t].exc = CyclicDependencyException
            /\ result[t].cyclic_list = <<"a", "b", "c", "a">>

\* The cycle as reported when the component at x is requested, x requiring
\* y and y requiring z.
ReportedFrom(t, x, y, z) ==
    Denotes(result[t].key, x) =>
        /\ result[t].exc = CyclicDependencyException
        /\ result[t].cyclic_list =
              <<heap[x].component_name, heap[y].component_name,
                heap[z].component_name, heap[x].component_name>>

\* C3 amended: with A, B, C wired in a cycle and none of them constructed,
\* get_component of any of the three fails with CyclicDependencyException
\* whose cyclic_list is the cycle starting and ending at the requested
\* component: [a, b, c, a] for A, [b, c, a, b] for B, [c, a, b, c] for C.
C3_CycleFromRequested ==
    \A t \in Threads : \A ia, ib, ic \in Positions :
        ThreeCycle(ia, ib, ic) /\ Done(t) /\ (\A i \in {ia, ib, ic} : Unbuilt(i)) =>
            /\ ReportedFrom(t, ia, ib, ic)
            /\ ReportedFrom(t, ib, ic, ia)
            /\ ReportedFrom(t, ic, ia, ib)

\* C3 witness: C was requested by type in the three-cycle and the call failed
\* with the cycle that starts at c.
C3_Witness ==
    \E ia, ib, ic \in Positions :
        /\ ThreeCycle(ia, ib, ic)
        /\ Done(1)
        /\ result[1].key = TypeKey("C")
        /\ result[1].cyclic_list = <<"c", "a", "b", "c">>

\* The first occurrence of a name in a list that holds it.
FirstIndex(ctx, n) ==
    CHOOSE k \in 1..Len(ctx) : ctx[k] = n /\ \A j \in 1..(k - 1) : ctx[j] # n

\* C4: when push finds the name in the thread's list, the payload is the list
\* from the name's first occurrence to the top followed by the name: it
\* starts and ends with the name, keeps the order of construction and holds
\* no component pushed before the first occurrence.  A get_component call
\* that failed on a cycle reports a path of the wired graph that closes on
\* its first member, and names the requested component only as that member.
C4_CyclePayload ==
    /\ \A t \in Threads : \A n \in Names :
          n \in Range(context[t]) =>
              LET ctx == context[t]
                  r == push(ctx, n)
                  list == r.cyclic_list
                  k == FirstIndex(ctx, n)
              IN /\ r.exc = CyclicDependencyException
                 /\ Len(list) = Len(ctx) - k + 2
                 /\ list[1] = n
                 /\ list[Len(list)] = n
                 /\ \A j \in 1..(Len(list) - 1) : list[j] = ctx[k + j - 1]
                 /\ \A j \in 1..(k - 1) : ctx[j] \notin Range(list)
    /\ \A t \in Threads :
          Done(t) /\ result[t].exc = CyclicDependencyException =>
              LET list == result[t].cyclic_list
              IN /\ Len(list) >= 2
                 /\ list[1] = list[Len(list)]
                 /\ \A j \in 1..(Len(list) - 1) :
                       factory_by_name[list[j + 1]] \in Wired(factory_by_name[list[j]])
                 /\ \A j, k \in 1..(Len(list) - 1) : list[j] = list[k] => j = k
                 /\ \A i \in Positions :
                       Denotes(result[t].key, i) =>
                           (heap[i].component_name \in Range(list)
                               <=> list[1] = heap[i].component_name)

\* C4 witness: the requested component requires a component of a two-member
\* cycle; the payload is that cycle, without the requested component.
C4_Witness ==
    \E i \in Positions :
        /\ Done(1) /\ Denotes(result[1].key, i)
        /\ result[1].exc = CyclicDependencyException
        /\ Len(result[1].cyclic_list) = 3
        /\ heap[i].component_name \notin Range(result[1].cyclic_list)

\* C5: a thread that is in no call has an empty detector list,
\* whatever the calls it made returned or raised; and a push that raises
\* leaves the list as it was.
C5_StackRestored ==
    \A t \in Threads :
        /\ Idle(t) => context[t] = <<>>
        /\ \A n \in Names :
              push(context[t], n).exc # NoExc => push(context[t], n).ctx = context[t]

\* C5 witness: a call failed two levels down (the cycle has two members
\* besides the repeated one) and the list is empty.
C5_Witness ==
    /\ Done(1)
    /\ result[1].exc = CyclicDependencyException
    /\ Len(result[1].cyclic_list) >= 3
    /\ context[1] = <<>>


Registrations == {"register_type", "register_instance"}

RepositoryUnchanged ==
    UNCHANGED <<heap, factories, factory_by_name, available_component_types>>

\* A step of an idle thread t that leaves a registration's result for t is
\* the start of a register_type or register_instance call of t, under the
\* name the result records.
C6Step ==
    \A t \in Threads :
        /\ Idle(t)
        /\ result'[t].op \in Registrations
        /\ result'[t].key.v \in DOMAIN factory_by_name
        => /\ result'[t].exc = NameAlreadyDefinedException
           /\ RepositoryUnchanged
           /\ frames'[t] = <<>>

\* C6: register_type or register_instance under a name that is bound, the
\* name "container" included, raises NameAlreadyDefinedException at once and
\* leaves the factory objects, factories, factory_by_name and
\* available_component_types as they were.
C6_NameConflict == [][C6Step]_vars

\* C6 witness: register_instance was refused under a name that a factory
\* registered by type holds; the factory is still the only one of that name
\* and str is no known type.
C6_Witness ==
    /\ result[1].op = "register_instance"
    /\ result[1].exc = NameAlreadyDefinedException
    /\ result[1].key = StrKey("a")
    /\ Named("a").kind = "singleton"
    /\ "str" \notin available_component_types

\* The factories a register_factory call of some thread is still writing.
Registering ==
    UNION {{frames[t][k].factory :
               k \in {l \in 1..Len(frames[t]) : frames[t][l].pc = "register_factory"}} :
           t \in Threads}

\* The names a registration has succeeded under, and the names a
\* registration has got as far as a factory object for.
RegisteredNames == {heap[i].component_name : i \in Positions \ Registering}

StartedNames == {heap[i].component_name : i \in Positions}

\* Repository.exist(name), where it answers.
Exists(n) == exist(factory_by_name, available_component_types, StrKey(n)).value

C7State ==
    /\ \A n \in Names :
          /\ n \in RegisteredNames => Exists(n)
          /\ Exists(n) => n \in StartedNames
          /\ (\A t \in Threads : Idle(t)) => (Exists(n) <=> n \in RegisteredNames)
    /\ \A t \in Threads :
          result[t].op \in Registrations /\ result[t].exc = NoExc =>
              /\ exist(factory_by_name, available_component_types, result[t].key).exc = NoExc
              /\ Exists(result[t].key.v)

C7Step ==
    \A n \in Names :
        /\ Exists(n) =>
              exist(factory_by_name', available_component_types', StrKey(n)).value
        /\ /\ ~Exists(n)
           /\ exist(factory_by_name', available_component_types', StrKey(n)).value
           => \E t \in Threads :
                 /\ ~Idle(t)
                 /\ frames[t][Len(frames[t])].pc = "register_factory"
                 /\ frames[t][Len(frames[t])].name = n
                 /\ frames[t][Len(frames[t])].idx = 1
                 /\ result[t].op \in Registrations \cup {"register_types"}

\* C7: exist(name) is true for every name a registration has succeeded
\* under, and only for names a registration has made a factory for (between
\* calls: exactly for the names a registration succeeded under); it is true
\* when the registration returns, before any setup; it becomes true by the
\* first write of register_factory and by nothing else, and it never becomes
\* false again.
C7_ExistAfterRegistration == []C7State /\ [][C7Step]_vars

\* C7 witness: a register_type call has just succeeded, its factory is not
\* wired yet, and exist answers TRUE for its name.
C7_Witness ==
    /\ result[1].op = "register_type"
    /\ result[1].exc = NoExc
    /\ Exists(result[1].key.v)
    /\ ~Named(result[1].key.v).initialized
    /\ Named(result[1].key.v).init_factories = NoneFactories

\* No factory is registered under the name, or produces the type or a
\* subtype of it.
Unmatched(key) ==
    \/ key.kind = "str" /\ key.v \notin StartedNames
    \/ key.kind = "type" /\ \A i \in Positions : ~is_type_of(heap[i], key.v)

\* A step of an idle thread t that leaves a get_component result for t is
\* the start of a get_component call of t with the key the result records.
C8Step ==
    \A t \in Threads :
        Idle(t) /\ result'[t].op = "get_component" /\ Unmatched(result'[t].key) =>
            /\ result'[t].exc = UnknownComponentException
            /\ result'[t].obj = NoInstance
            /\ UNCHANGED <<heap, factories, factory_by_name, available_component_types,
                           context, frames>>

\* C8: get_component with a name no factory is registered under, or with a
\* type no factory produces (as such or as a subtype), raises
\* UnknownComponentException at once, constructs nothing and changes no
\* state.
C8_UnknownComponent == [][C8Step]_vars

\* C8 witness: after a successful setup of a container that holds a
\* singleton, get_component by a type that nothing produces has raised
\* UnknownComponentException.
C8_Witness ==
    /\ FullyWired
    /\ Singletons # {}
    /\ Done(1)
    /\ result[1].key.kind = "type"
    /\ Unmatched(result[1].key)
    /\ result[1].exc = UnknownComponentException

\* The factories registered with exactly this type.
ExactMatches(ty) == {i \in Positions : heap[i].component_type = ty}

\* A setup has succeeded and left every creating factory wired, and there
\* is at least one.
AfterSetup == FullyWired /\ Singletons # {}

\* C9 as stated: after setup, get_component(T) for a type T with two or more
\* registered implementations (components registered by type, of T or of a
\* subtype) and no single exact match raises TooManyDefinitionsException.
C9_Ambiguous ==
    \A t \in Threads :
        /\ AfterSetup
        /\ Done(t)
        /\ result[t].key.kind = "type"
        /\ Len(find_by_type(heap, factory_by_name, result[t].key.v)) >= 2
        /\ Range(find_by_type(heap, factory_by_name, result[t].key.v)) \subseteq Singletons
        /\ Cardinality(ExactMatches(result[t].key.v)) # 1
        => result[t].exc = TooManyDefinitionsException

\* C10 as stated: after setup, get_component(T) returns the instance of F
\* when F, a component registered by type, is the only factory that produces
\* T or a subtype of T, also when T itself was never registered (F being
\* able to produce: no cycle of unbuilt components is reachable from it).
C10_OnlyImplementation ==
    \A t \in Threads : \A i \in Singletons :
        /\ AfterSetup
        /\ Done(t)
        /\ result[t].key.kind = "type"
        /\ find_by_type(heap, factory_by_name, result[t].key.v) = <<i>>
        /\ ~UnbuiltCycleReachable(i)
        => /\ result[t].exc = NoExc
           /\ result[t].obj = heap[i].instance

C11State ==
    \A t \in Threads : \A i \in Singletons :
        /\ Done(t)
        /\ Denotes(result[t].key, i)
        /\ ~heap[i].initialized
        => /\ result[t].exc = InvalidStateException
           /\ result[t].obj = NoInstance
           /\ heap[i].instance = NoInstance
           /\ heap[i].constructed = 0
           /\ context[t] = <<>>

\* A step that leaves a get_component result for thread t, under a key that
\* names the singleton factory at position i, not initialized, is a step of
\* that call.
C11Step ==
    \A t \in Threads : \A i \in Singletons :
        /\ result'[t].op = "get_component"
        /\ Denotes(result'[t].key, i)
        /\ ~heap[i].initialized
        => /\ RepositoryUnchanged
           /\ \A k \in 1..Len(frames'[t]) :
                 /\ frames'[t][k].pc \in {"iterate", "found", "enter"}
                 /\ frames'[t][k].args = <<>>
                 /\ ~frames'[t][k].called
           /\ frames'[t] = <<>> => context'[t] = <<>>

\* C11: get_component, by name or by type, of a component registered by type
\* whose factory is not initialized (no setup has wired it since it was
\* registered, also when an earlier setup wired other factories) raises
\* InvalidStateException, calls no constructor and no get_object of a
\* requirement, assigns no _instance, changes no factory and, when it has
\* raised, leaves the thread's detector list as it was.
C11_NotInitialized == []C11State /\ [][C11Step]_vars

\* C11 witness: a component registered after a setup that wired another
\* singleton was requested by type, and the call raised InvalidStateException.
C11_Witness ==
    \E i, j \in Singletons :
        /\ Done(1)
        /\ result[1].key.kind = "type"
        /\ Denotes(result[1].key, i)
        /\ ~heap[i].initialized
        /\ result[1].exc = InvalidStateException
        /\ heap[j].initialized
        /\ j < i
        /\ context[1] = <<>>

Statics == {i \in Positions : heap[i].kind = "static"}

\* The objects a static factory of the model can have been given: the
\* container itself, or an object handed to register_instance.
GivenObjects == StaticObjects \cup {ContainerObj}

C12State ==
    \A i \in Statics :
        /\ heap[i].initialized
        /\ heap[i].instance \in GivenObjects
        /\ heap[i].component_type = heap[i].instance.type
        /\ heap[i].constructed = 0
        /\ \A t \in Threads :
              /\ heap[i].component_name \notin Range(context[t])
              /\ \A k \in 1..Len(frames[t]) :
                    frames[t][k].pc \in {"enter", "create", "return"} =>
                        frames[t][k].factory # i

C12Step ==
    /\ \A i \in Statics : heap'[i] = heap[i]
    /\ \A t \in Threads : \A i \in Statics :
          /\ Idle(t)
          /\ result'[t].op = "get_component"
          /\ result'[t].key = StrKey(heap[i].component_name)
          /\ Denotes(result'[t].key, i)
          => /\ result'[t].exc = NoExc
             /\ result'[t].obj = heap[i].instance
             /\ UNCHANGED <<heap, factories, context, frames>>

\* C12: a static factory is initialized from register_instance on and holds
\* the very object it was given; get_component of its name returns that
\* object at once on every call, whether or not setup has run, pushes
\* nothing on the detector's list, enters no _create_component and calls no
\* constructor.
C12_StaticAlwaysReady == []C12State /\ [][C12Step]_vars

\* C12 witness: the instance registered under "a" was returned by
\* get_component("a") while a singleton registered by type is still not
\* initialized (no setup has run since).
C12_Witness ==
    /\ Returned(1)
    /\ result[1].key = StrKey("a")
    /\ Named("a").kind = "static"
    /\ result[1].obj \in StaticObjects
    /\ \E i \in Singletons : ~heap[i].initialized

\* The requirements of the factory at position i, by index.
Requirement(i, k) == heap[i].requirements[k]

RequirementIndexes(i) == 1..Len(heap[i].requirements)

\* What the factory at position i has wired for its k-th requirement, 0 when
\* post_init has not got that far.
WiredTo(i, k) ==
    IF heap[i].init_factories # NoneFactories /\ k <= Len(heap[i].init_factories)
    THEN heap[i].init_factories[k] ELSE 0

\* Some thread is in a call of setup.
SettingUp == \E t \in Threads : ~Idle(t) /\ result[t].op = "setup"

\* One pass of the loop of post_init for the requirement, uninterrupted: by
\* name, and by type when the name is bound to nothing.
Resolution(req) ==
    LET by_name == resolve_by_name(heap, factory_by_name, req)
    IN IF by_name.exc # NoExc \/ by_name.factory # 0 THEN by_name
       ELSE resolve_by_type(find_by_type(heap, factory_by_name, req.component_type))

\* The container is registered under CONTAINER_COMPONENT_NAME, as the first
\* factory, a static one that holds the container.
ContainerRegistered ==
    /\ CONTAINER_COMPONENT_NAME \in DOMAIN factory_by_name
    /\ factory_by_name[CONTAINER_COMPONENT_NAME] = 1
    /\ factories[1] = 1
    /\ heap[1].kind = "static"
    /\ heap[1].instance = ContainerObj

\* The k-th requirement of the factory at position i is wired to the
\* container whenever it is resolved, and the component produced has the
\* container as its k-th constructor argument.
ContainerInjected(i, k) ==
    /\ Resolution(Requirement(i, k)) = [exc |-> NoExc, factory |-> 1]
    /\ WiredTo(i, k) \in {0, 1}
    /\ heap[i].initialized /\ ~SettingUp => WiredTo(i, k) = 1
    /\ heap[i].instance # NoInstance => heap[i].instance.args[k] = ContainerObj
    /\ \A t \in Threads :
          Returned(t) /\ Denotes(result[t].key, i) => result[t].obj.args[k] = ContainerObj

\* C13 as stated: the container is registered under "container" from
\* construction on, and every requirement named "container" or of type
\* Container is wired to the container and receives the container.
C13_AsStated ==
    /\ ContainerRegistered
    /\ \A i \in Singletons : \A k \in RequirementIndexes(i) :
          \/ Requirement(i, k).component_name = CONTAINER_COMPONENT_NAME
          \/ Requirement(i, k).component_type = "Container"
          => ContainerInjected(i, k)

\* The container is an instance of the type the requirement declares:
\* Container, a base class of it, or none declared (object).
ContainerSatisfies(req) == IsSubclass("Container", req.component_type)

\* The k-th requirement of the factory at position i is never wired: its
\* resolution raises TypeMismatchException, no setup that has the factory
\* in its list returns normally, and the factory is never ready and never
\* produces a component.
ContainerRefused(i, k) ==
    /\ Resolution(Requirement(i, k)) = [exc |-> TypeMismatchException, factory |-> 0]
    /\ WiredTo(i, k) = 0
    /\ ~heap[i].initialized
    /\ heap[i].instance = NoInstance
    /\ \A t \in Threads :
          /\ Idle(t)
          /\ result[t].op = "setup"
          /\ i \in {factories[p] : p \in 1..Len(factories)}
          => result[t].exc # NoExc

\* C13 amended: the container is registered under "container" from
\* construction on; a requirement named "container" whose declared type the
\* container satisfies, or a requirement of type Container whose name is
\* bound to no factory while the container is the only registered factory
\* of that type, is wired to the container by setup, and the component
\* produced receives the container itself; a requirement named "container"
\* of a declared type the container does not satisfy is never wired: setup
\* raises TypeMismatchException for it.
C13_ContainerInjected ==
    /\ ContainerRegistered
    /\ \A i \in Singletons : \A k \in RequirementIndexes(i) :
          /\ \/ /\ Requirement(i, k).component_name = CONTAINER_COMPONENT_NAME
                /\ ContainerSatisfies(Requirement(i, k))
             \/ /\ Requirement(i, k).component_type = "Container"
                /\ Requirement(i, k).component_name \notin DOMAIN factory_by_name
                /\ find_by_type(heap, factory_by_name, "Container") = <<1>>
             => ContainerInjected(i, k)
          /\ /\ Requirement(i, k).component_name = CONTAINER_COMPONENT_NAME
             /\ ~ContainerSatisfies(Requirement(i, k))
             => ContainerRefused(i, k)

\* C13 witness: K (requirement container: Container), U (requirement
\* container, no type declared) and N (requirement container: str) are
\* registered; setup wired K and U and ended with TypeMismatchException at N;
\* K and U are constructed, each holding the container, and
\* get_component(U) has returned U's instance.
C13_Witness ==
    /\ {"k", "u", "n"} \subseteq DOMAIN factory_by_name
    /\ Named("k").component_type = "K"
    /\ Named("u").component_type = "U"
    /\ Named("n").component_type = "N"
    /\ Named("n").init_factories = <<>>
    /\ ~Named("n").initialized
    /\ Named("k").instance # NoInstance
    /\ Named("k").instance.args = <<ContainerObj>>
    /\ Named("u").instance # NoInstance
    /\ Named("u").instance.args = <<ContainerObj>>
    /\ Returned(1)
    /\ result[1].key = TypeKey("U")
    /\ result[1].obj = Named("u").instance

\* C13, second witness: M (requirement x: Container, no component x) is
\* constructed holding the container, found by type.
C13_ByType ==
    /\ "m" \in DOMAIN factory_by_name
    /\ "x" \notin DOMAIN factory_by_name
    /\ Named("m").component_type = "M"
    /\ Named("m").instance # NoInstance
    /\ Named("m").instance.args = <<ContainerObj>>

\* The requirement's name is bound to a factory.
Bound(req) == req.component_name \in DOMAIN factory_by_name

\* The requirement's name is bound to a factory that produces neither the
\* required type nor a subtype of it.
Mismatched(req) ==
    /\ Bound(req)
    /\ ~IsSubclass(Named(req.component_name).component_type, req.component_type)

\* The factories that produce the type or a subtype of it.
Producers(ty) == {j \in Positions : IsSubclass(heap[j].component_type, ty)}

\* The innermost call of thread t, which is in a call.
Innermost(t) == frames[t][Len(frames[t])]

\* Thread t is at the head of the loop of post_init for requirement k of the
\* factory at position i, nothing found for it yet.
Resolving(t, i, k) ==
    /\ ~Idle(t)
    /\ Innermost(t).pc = "post_init"
    /\ Innermost(t).factory = i
    /\ Innermost(t).idx = k
    /\ Innermost(t).found = 0
    /\ k \in RequirementIndexes(i)

\* Thread t takes a step of the call it is in.
Goes(t) == frames'[t] # frames[t]

C14State ==
    /\ \A i \in Singletons : \A k \in RequirementIndexes(i) :
          Mismatched(Requirement(i, k)) =>
              Resolution(Requirement(i, k)) = [exc |-> TypeMismatchException, factory |-> 0]
    /\ \A t \in Threads : \A i \in Singletons : \A k \in RequirementIndexes(i) :
          /\ result[t].op = "setup"
          /\ result[t].exc = NoExc
          /\ i \in Range(factories)
          => ~Mismatched(Requirement(i, k))

C14Step ==
    \A t \in Threads : \A i \in Singletons : \A k \in RequirementIndexes(i) :
        Resolving(t, i, k) /\ Goes(t) /\ Mismatched(Requirement(i, k)) =>
            /\ result'[t].op = "setup"
            /\ result'[t].exc = TypeMismatchException
            /\ Idle(t)'
            /\ heap' = heap
            /\ Len(heap[i].init_factories) = k - 1

\* C14: a requirement whose name is bound to a factory that is not of the
\* required type (or a subtype) makes setup fail: no setup succeeds while
\* there is one; when setup reaches that requirement it raises
\* TypeMismatchException at once, without a lookup by type, wires nothing
\* for it and does not mark the factory initialized, however many factories
\* of the required type are registered.
C14_TypeMismatch == []C14State /\ [][C14Step]_vars

\* C14 witness: setup raised TypeMismatchException on a requirement whose
\* name is bound to a factory of another type, while exactly one registered
\* factory is of the required type.
C14_Witness ==
    \E i \in Singletons : \E k \in RequirementIndexes(i) :
        /\ result[1].op = "setup"
        /\ result[1].exc = TypeMismatchException
        /\ Mismatched(Requirement(i, k))
        /\ Requirement(i, k).component_type # "object"
        /\ Cardinality(Producers(Requirement(i, k).component_type)) = 1
        /\ heap[i].init_factories = <<>>
        /\ ~heap[i].initialized
        /\ \A j \in Singletons : j < i => heap[j].initialized

\* Thread t is in the find_by_type call that post_init made for requirement
\* k of the factory at position i, the dictionary's iterator made.
FindingFor(t, i, k) ==
    /\ Len(frames[t]) >= 2
    /\ Innermost(t).pc = "iterate"
    /\ Innermost(t).caller = "post_init"
    /\ frames[t][Len(frames[t]) - 1].factory = i
    /\ frames[t][Len(frames[t]) - 1].idx = k

C15Step ==
    \A t \in Threads : \A i \in Singletons : \A k \in RequirementIndexes(i) :
        LET req == Requirement(i, k)
            found == Producers(req.component_type)
        IN /\ Resolving(t, i, k) /\ Goes(t) /\ ~Bound(req) =>
                 /\ heap' = heap
                 /\ result'[t].exc = Pending
                 /\ Innermost(t)'.pc = "find"
                 /\ Innermost(t)'.key = TypeKey(req.component_type)
           /\ FindingFor(t, i, k) /\ Goes(t) =>
                 /\ heap' = heap
                 /\ Len(heap[i].init_factories) = k - 1
                 /\ Cardinality(found) = 1 =>
                       /\ result'[t].exc = Pending
                       /\ Innermost(t)'.pc = "post_init"
                       /\ Innermost(t)'.idx = k
                       /\ Innermost(t)'.found \in found
                 /\ Cardinality(found) = 0 =>
                       /\ result'[t].exc = UnknownComponentException
                       /\ Idle(t)'
                 /\ Cardinality(found) >= 2 =>
                       /\ result'[t].exc = TooManyDefinitionsException
                       /\ Idle(t)'
           /\ /\ ~Idle(t)
              /\ Innermost(t).pc = "post_init"
              /\ Innermost(t).factory = i
              /\ Innermost(t).idx = k
              /\ Innermost(t).found # 0
              /\ Goes(t)
              => /\ heap'[i].init_factories = Append(heap[i].init_factories, Innermost(t).found)
                 /\ Len(heap'[i].init_factories) = k

\* C15: when setup reaches a requirement whose name is bound to no factory,
\* it resolves it by type: find_by_type is called for the required type, and
\* the requirement is wired to the only factory that produces the required
\* type or a subtype; setup raises UnknownComponentException when there is
\* none and TooManyDefinitionsException when there are two or more, and then
\* wires nothing for the requirement.
C15_ByTypeFallback == [][C15Step]_vars

\* C15 witness: setup succeeded and wired a requirement of type A, under a
\* name bound to nothing, to the only factory of a subtype of A, which is
\* registered under another name.
C15_Witness ==
    \E i \in Singletons : \E k \in RequirementIndexes(i) :
        /\ result[1].op = "setup"
        /\ result[1].exc = NoExc
        /\ ~Bound(Requirement(i, k))
        /\ Requirement(i, k).component_type = "A"
        /\ WiredTo(i, k) # 0
        /\ heap[WiredTo(i, k)].component_type = "L"
        /\ Producers("A") = {WiredTo(i, k)}

\* The _create_component calls a thread is in, outermost first.
Building(t) == SelectSeq(frames[t], InBlock)

\* The frames of a thread follow the wiring: the detector's list names the
\* components of the _create_component calls, outermost first; a call past
\* _assert_initialized has collected, in declared order, the instances of
\* the first requirements' factories, each completely constructed and the
\* one its factory holds; the call above it, if any, constructs the next
\* requirement, and no later requirement has a call; the component's own
\* constructor is entered only when all are collected.
C16State ==
    \A t \in Threads :
        LET b == Building(t)
        IN /\ Len(context[t]) = Len(b)
           /\ \A d \in 1..Len(b) :
                 LET fr == b[d]
                     f == heap[fr.factory]
                 IN /\ context[t][d] = f.component_name
                    /\ f.instance = NoInstance
                    /\ fr.called => Len(fr.args) = Len(f.init_factories) /\ d = Len(b)
                    /\ fr.pc = "enter" => fr.args = <<>> /\ d = Len(b)
                    /\ fr.pc = "create" =>
                          /\ f.initialized
                          /\ Len(fr.args) <= Len(f.init_factories)
                          /\ \A k \in 1..Len(fr.args) :
                                /\ fr.args[k] # NoInstance
                                /\ fr.args[k] = heap[f.init_factories[k]].instance
                    /\ d < Len(b) =>
                          /\ Len(fr.args) < Len(f.init_factories)
                          /\ b[d + 1].factory = f.init_factories[Len(fr.args) + 1]

\* The step in which a constructor has run: the component has one argument
\* per requirement, the k-th being the instance of the factory wired for the
\* k-th requirement.
C16Step ==
    \A i \in Singletons :
        heap'[i].instance # heap[i].instance =>
            LET obj == heap'[i].instance
            IN /\ Len(obj.args) = Len(heap[i].requirements)
               /\ Len(obj.args) = Len(heap[i].init_factories)
               /\ \A k \in 1..Len(obj.args) :
                     /\ obj.args[k] # NoInstance
                     /\ obj.args[k] = heap[heap[i].init_factories[k]].instance
                     /\ obj.args[k] = heap'[heap[i].init_factories[k]].instance

\* C16: producing a component produces its wired requirement factories in
\* declared order, each requirement completely constructed before the next
\* starts and before the component's constructor runs; the constructor
\* receives those instances, in declared order, and each is the instance
\* its factory holds, the one get_component returns for it.
C16_DeclaredOrder == []C16State /\ [][C16Step]_vars

\* C16 witness: P (requirements k, m) was constructed with the instances of
\* k and m, in that order, m having been registered before k, and
\* get_component("m") has returned the very instance P holds.
C16_Witness ==
    /\ {"k", "m", "p"} \subseteq DOMAIN factory_by_name
    /\ factory_by_name["m"] < factory_by_name["k"]
    /\ Named("p").instance # NoInstance
    /\ Named("p").instance.args = <<Named("k").instance, Named("m").instance>>
    /\ Named("k").instance.type = "K"
    /\ Named("m").instance.type = "M"
    /\ Returned(1)
    /\ result[1].key = StrKey("m")
    /\ result[1].obj = Named("p").instance.args[2]

\* The type a parameter declares, object when it declares none.
DeclaredType(p) == IF p.annotation = EmptyAnnotation THEN "object" ELSE p.annotation

\* The parameter is the implicit self parameter of the signature.
ImplicitSelf(params, idx) == idx = 1 /\ params[idx].name = "self"

\* The parameter is a variadic catch-all (*name or **name).
Variadic(p) == p.kind \in {VAR_POSITIONAL, VAR_KEYWORD}

\* The indexes of the parameters that are neither the implicit self nor
\* variadic.
DeclaredIndexes(params) ==
    {idx \in 1..Len(params) : ~ImplicitSelf(params, idx) /\ ~Variadic(params[idx])}

\* The indexes of the parameters whose name is not an ignored one.
NamedIndexes(params) ==
    {idx \in 1..Len(params) : params[idx].name \notin IGNORED_PARAMETERS_NAMES}

\* reqs is, in declaration order, one requirement for every parameter whose
\* index is in kept, with the parameter's name and declared type.
Extracts(reqs, params, kept) ==
    /\ Len(reqs) = Cardinality(kept)
    /\ \A idx \in kept :
          LET j == Cardinality({q \in kept : q <= idx})
          IN reqs[j] = Dependency(params[idx].name, DeclaredType(params[idx]))

\* C17 as stated: the requirements extracted from a constructor are, in
\* declaration order, one for every parameter that is neither the implicit
\* self nor a variadic catch-all, and none for those.
C17_AsStated ==
    \A i \in Singletons :
        LET params == InitParams(heap[i].component_type)
        IN Extracts(heap[i].requirements, params, DeclaredIndexes(params))

\* C17 amended: the requirements extracted from a constructor are, in
\* declaration order, one for every parameter whose name is not self, args
\* or kwargs, whatever its kind, and none for the parameters of these names;
\* each carries the parameter's name and its declared type, object when none
\* is declared; a signature with no other parameter yields the empty list.
C17_ExtractionByName ==
    \A i \in Singletons :
        LET params == InitParams(heap[i].component_type)
        IN /\ Extracts(heap[i].requirements, params, NamedIndexes(params))
           /\ NamedIndexes(params) = {} => heap[i].requirements = <<>>

\* C17 witness: W (self, name: str, *args, **kwargs), V (self, *rest,
\* **options) and Z (self, args) are registered: W has the one requirement
\* (name, str), V has requirements for its two variadic parameters, and Z
\* has none for its plainly declared parameter.
C17_Witness ==
    /\ {"w", "v", "z"} \subseteq DOMAIN factory_by_name
    /\ Named("w").component_type = "W"
    /\ Named("w").requirements = <<Dependency("name", "str")>>
    /\ Named("v").component_type = "V"
    /\ Named("v").requirements = <<Dependency("rest", "object"), Dependency("options", "object")>>
    /\ Named("z").component_type = "Z"
    /\ Named("z").requirements = <<>>

\* The instances the singleton factory at position i can have constructed so
\* far have its type and name and an ordinal up to constructed.
ConstructedBy(obj, i) ==
    /\ obj.type = heap[i].component_type
    /\ obj.by = heap[i].component_name
    /\ obj.n \in 1..heap[i].constructed

\* What a thread has been handed by a factory is an instance the factory
\* constructed; the cached instance is the one constructed last.
C18State ==
    \A i \in Singletons :
        /\ (heap[i].instance = NoInstance) <=> (heap[i].constructed = 0)
        /\ heap[i].instance # NoInstance =>
              /\ ConstructedBy(heap[i].instance, i)
              /\ heap[i].instance.n = heap[i].constructed
        /\ \A t \in Threads :
              Returned(t) /\ Denotes(result[t].key, i) => ConstructedBy(result[t].obj, i)

\* Thread t enters _create_component of the factory at position i: its
\* innermost frame becomes a new one, for i, with the name pushed.
Enters(t, i) ==
    /\ frames'[t] # <<>>
    /\ frames'[t][Len(frames'[t])].pc = "enter"
    /\ frames'[t][Len(frames'[t])].container = "own"
    /\ frames'[t][Len(frames'[t])].factory = i
    /\ \/ Idle(t)
       \/ Innermost(t).pc # "enter"
       \/ Len(frames'[t]) # Len(frames[t])

\* Thread t's constructor call of the factory at position i returns: the
\* frame goes on to the last statement of get_object.
Creates(t, i) ==
    /\ ~Idle(t)
    /\ Innermost(t).pc = "create"
    /\ Innermost(t).container = "own"
    /\ Innermost(t).factory = i
    /\ Len(frames'[t]) = Len(frames[t])
    /\ frames'[t][Len(frames'[t])].pc = "return"

\* Thread t returns from get_object of the factory at position i.
Leaves(t, i) ==
    /\ ~Idle(t)
    /\ Innermost(t).pc = "return"
    /\ Innermost(t).container = "own"
    /\ Innermost(t).factory = i
    /\ Len(frames'[t]) = Len(frames[t]) - 1

\* The check: a thread enters the creation of a singleton only when it sees
\* no instance.  The creation: when the constructor returns, the thread
\* assigns the new instance, whatever _instance held.  The return: the
\* thread hands back what _instance holds then.
C18Step ==
    \A t \in Threads : \A i \in Singletons :
        /\ Enters(t, i) => heap[i].instance = NoInstance
        /\ Creates(t, i) =>
              /\ heap'[i].constructed = heap[i].constructed + 1
              /\ heap'[i].instance.n = heap'[i].constructed
              /\ heap'[i].instance # heap[i].instance
        /\ Leaves(t, i) =>
              /\ heap'[i] = heap[i]
              /\ Idle(t)' => result'[t].obj = heap[i].instance

\* C18: singleton creation is a check followed, steps later, by a creation
\* that nothing guards: a thread enters the creation when it sees no
\* instance, and when its constructor returns it assigns its own new
\* instance over whatever another thread assigned meanwhile; so two threads
\* that both saw no instance construct two instances, the one assigned last
\* stays cached, and each caller receives what is cached when it returns,
\* which for the first to return can be its own, another one than the
\* second receives.
C18_CheckThenCreate == []C18State /\ [][C18Step]_vars

\* C18 witness: both threads called get_component for the same singleton,
\* the constructor ran twice, the threads received different instances, and
\* the cached instance is the one thread 2 assigned last.
C18_Witness ==
    \E i \in Singletons :
        /\ Returned(1) /\ Returned(2)
        /\ result[1].key = result[2].key
        /\ Denotes(result[1].key, i)
        /\ heap[i].constructed = 2
        /\ result[1].obj # result[2].obj
        /\ result[1].obj.n = 1
        /\ result[2].obj.n = 2
        /\ heap[i].instance = result[2].obj

\* The names of the _create_component calls a thread is in, outermost first.
BuildingNames(t) == [d \in 1..Len(Building(t)) |-> Building(t)[d].name]

\* A thread's detector list names the components of the thread's own
\* _create_component calls, outermost first, whatever the other threads
\* construct; a cycle reported to a thread closes on its first member.
C19State ==
    \A t \in Threads :
        /\ context[t] = BuildingNames(t)
        /\ \A d \in 1..Len(Building(t)) :
              Building(t)[d].name = heap[Building(t)[d].factory].component_name
        /\ Done(t) /\ result[t].exc = CyclicDependencyException =>
              LET list == result[t].cyclic_list
              IN /\ Len(list) >= 2
                 /\ list[1] = list[Len(list)]

\* A step changes the detector list of at most one thread, the one that
\* takes the step; and a call fails with CyclicDependencyException only on
\* a name that is on the calling thread's own list, with that list from the
\* name on as the payload.
C19Step ==
    \A t \in Threads :
        /\ context'[t] # context[t] =>
              /\ \A u \in Threads \ {t} : context'[u] = context[u]
              /\ frames'[t] # frames[t]
        /\ /\ result'[t].exc = CyclicDependencyException
           /\ result[t].exc # CyclicDependencyException
           => /\ result'[t].cyclic_list[1] \in Range(context[t])
              /\ result'[t].cyclic_list =
                    Append(SubSeq(context[t],
                                  FirstIndex(context[t], result'[t].cyclic_list[1]),
                                  Len(context[t])),
                           result'[t].cyclic_list[1])
              /\ context'[t] = <<>>

\* C19: under every interleaving of get_component calls of two threads, a
\* push or pop changes only the list of the thread that makes it, each
\* thread's list names exactly the components that thread is constructing,
\* and CyclicDependencyException is raised only for a name on the calling
\* thread's own list, with a cycle taken from that list: never for a
\* component that only another thread is constructing.
C19_ThreadIsolation == []C19State /\ [][C19Step]_vars

\* C19 witness: both threads are constructing the same component C at the
\* same time, and inside it the same requirement L: each list holds both
\* names, and neither call has failed.
C19_Witness ==
    /\ Len(Building(1)) = 2
    /\ Building(2) = Building(1)
    /\ context[1] = <<"c", "l">>
    /\ context[2] = context[1]
    /\ result[1].exc = Pending
    /\ result[2].exc = Pending

\* C20 as stated: in every state between the calls of any sequence of
\* registrations, setup calls and get_component calls, a creating factory
\* that is initialized has one resolved factory per declared requirement, in
\* order, each producing the required type or a subtype, and no constructor
\* is ever called with missing arguments.
C20_ReadyFullyWired ==
    (\A t \in Threads : Idle(t)) =>
        /\ \A i \in Singletons :
              heap[i].initialized =>
                  /\ heap[i].init_factories # NoneFactories
                  /\ Len(heap[i].init_factories) = Len(heap[i].requirements)
                  /\ \A k \in RequirementIndexes(i) :
                        is_type_of(heap[heap[i].init_factories[k]],
                                   Requirement(i, k).component_type)
        /\ \A t \in Threads : Done(t) => result[t].exc # TypeError

\* The step is one of a setup call of thread t.
SetupStep(t) ==
    /\ result'[t].op = "setup"
    /\ result'[t] # result[t] \/ frames'[t] # frames[t]

\* The factory a setup call of thread t is wiring, 0 when it is wiring none.
Wiring(frs) == IF frs # <<>> /\ frs[1].pc = "post_init" THEN frs[1].factory ELSE 0

\* The index in Repository.factories a setup call of thread t has got to.
SetupAt(frs) == IF frs # <<>> /\ frs[1].pc \in {"setup", "post_init"} THEN frs[1].pos ELSE 0

C21Step ==
    \A t \in Threads :
        SetupStep(t) =>
            /\ \A j \in Positions :
                  heap'[j] # heap[j] => j \in {Wiring(frames[t]), Wiring(frames'[t])}
            /\ ~Idle(t)' => SetupAt(frames'[t]) >= SetupAt(frames[t])
            /\ Wiring(frames'[t]) # 0 =>
                  factories[SetupAt(frames'[t])] = Wiring(frames'[t])
            /\ Idle(t)' /\ result'[t].exc # NoExc =>
                  /\ Wiring(frames[t]) # 0
                  /\ ~heap'[Wiring(frames[t])].initialized
                  /\ heap' = heap

\* C21 as stated: setup wires the factories one by one in registration
\* order: a step of setup changes only the factory it is wiring, and the
\* factories are taken in the order of the list; when the wiring of a
\* factory fails, setup raises at once, the failing factory is not ready
\* afterwards and no factory registered after it is touched by that call.
C21_SetupInOrder == [][C21Step]_vars

\* C22 as stated: after a setup call that failed, no creating factory is
\* ready (so that a get_component for a component registered by type raises
\* InvalidStateException).
C22_NoPartialSuccess ==
    \A t \in Threads :
        result[t].op = "setup" /\ result[t].exc \notin {NoExc, Pending} =>
            \A i \in Singletons : ~heap[i].initialized

\* The requirement declares no type (it is of type object) and its name is
\* bound to no factory.
UntypedUnbound(req) == req.component_type = "object" /\ ~Bound(req)

C27State ==
    /\ \A i \in Singletons : \A k \in RequirementIndexes(i) :
          UntypedUnbound(Requirement(i, k)) =>
              /\ {1, i} \subseteq Producers("object")
              /\ Producers("object") = Positions
              /\ i \in Values(factory_by_name) =>
                    /\ {1, i} \subseteq Range(find_by_type(heap, factory_by_name, "object"))
                    /\ Resolution(Requirement(i, k))
                          = [exc |-> TooManyDefinitionsException, factory |-> 0]
              /\ ~heap[i].initialized
              /\ WiredTo(i, k) = 0
    /\ \A t \in Threads : \A i \in Singletons : \A k \in RequirementIndexes(i) :
          /\ result[t].op = "setup"
          /\ result[t].exc = NoExc
          /\ i \in Range(factories)
          => ~UntypedUnbound(Requirement(i, k))

C27Step ==
    \A t \in Threads : \A i \in Singletons : \A k \in RequirementIndexes(i) :
        FindingFor(t, i, k) /\ Goes(t) /\ UntypedUnbound(Requirement(i, k)) =>
            /\ result'[t].op = "setup"
            /\ result'[t].exc = TooManyDefinitionsException
            /\ Idle(t)'
            /\ ~heap'[i].initialized
            /\ heap' = heap

\* C27: a requirement that declares no type and whose name is bound to no
\* factory is never wired: by type it matches every registered factory, the
\* container's and the requiring component's among them, so its factory is
\* never ready, no setup succeeds while there is one, and a setup that
\* reaches it raises TooManyDefinitionsException, not
\* UnknownComponentException.
C27_UntypedUnbound == []C27State /\ [][C27Step]_vars

\* C27 witness: setup reached the untyped requirement c of B, the only
\* registered component, whose name is bound to nothing, and raised
\* TooManyDefinitionsException.
C27_Witness ==
    \E i \in Singletons :
        /\ Singletons = {i}
        /\ heap[i].component_type = "B"
        /\ UntypedUnbound(Requirement(i, 1))
        /\ result[1].op = "setup"
        /\ result[1].exc = TooManyDefinitionsException
        /\ ~heap[i].initialized

\* The factory object a frame is about.
FactoryOf(fr) == IF fr.container = "own" THEN heap[fr.factory] ELSE other.fs[fr.factory]

\* The exception in flight that stands for any exception raised in a
\* with-block.
InFlight == [exc |-> TypeError, cyclic_list |-> <<>>]

\* Whenever a thread is inside with-blocks, the pop of the innermost one
\* finds the list non-empty with the block's own component name on top, and
\* leaving all the blocks on an exception pops every name without raising
\* and leaves the list as it was before the outermost block.
C23State ==
    \A t \in Threads :
        LET b == Building(t)
        IN /\ b # <<>> =>
                 /\ context[t] # <<>>
                 /\ context[t][Len(context[t])] = b[Len(b)].name
                 /\ b[Len(b)].name = FactoryOf(b[Len(b)]).component_name
                 /\ pop(context[t], FactoryOf(b[Len(b)]).component_name).exc = NoExc
           /\ unwind(frames[t], context[t], InFlight).e = InFlight
           /\ unwind(frames[t], context[t], InFlight).ctx = <<>>

\* A get_component call ends with InvalidStateException only in the step of
\* _assert_initialized for a factory that is not ready, never through a pop.
C23Step ==
    \A t \in Threads :
        /\ result'[t] # result[t]
        /\ result'[t].op = "get_component"
        /\ result'[t].exc = InvalidStateException
        => /\ ~Idle(t)
           /\ Innermost(t).pc = "enter"
           /\ ~FactoryOf(Innermost(t)).initialized

\* C23: the guard's pop never fails in a call through the container: a
\* thread inside a with-block has a non-empty list whose top is the block's
\* component name, leaving the blocks pops each name without raising, and
\* the only InvalidStateException a get_component call ends with is the
\* one of a factory that is not ready.
C23_PopGuard == []C23State /\ [][C23Step]_vars

\* C23 witness: the constructor of S, nested in the creation of R, called
\* get_component(R); the exception left both with-blocks and reached the
\* caller as raised, with the list empty.
C23_Witness ==
    /\ Done(1)
    /\ result[1].exc = CyclicDependencyException
    /\ result[1].cyclic_list = <<"r", "s", "r">>
    /\ context[1] = <<>>
    /\ frames[1] = <<>>

\* The names on a thread's detector list are pairwise distinct, the list has
\* one name for each _create_component call of the thread, and so neither
\* is longer than the number of registered components.
C24State ==
    \A t \in Threads :
        /\ \A j, k \in 1..Len(context[t]) : context[t][j] = context[t][k] => j = k
        /\ Range(context[t]) \subseteq {heap[i].component_name : i \in Singletons}
        /\ Len(Building(t)) = Len(context[t])
        /\ Len(Building(t)) <= Cardinality(Singletons)

\* Thread t is in a get_component call.
InGetComponent(t) == ~Idle(t) /\ result[t].op = "get_component"

\* C24: every get_component call ends, with an instance or an exception,
\* whatever the wired requirements are, cycles included: the names on the
\* calling thread's list are pairwise distinct, so the calls are never
\* nested deeper than the number of registered components.
C24_Terminates == []C24State /\ \A t \in MainThreads : InGetComponent(t) ~> Idle(t)

\* C24 witness: the requirements A -> b -> c -> a are wired, and the call
\* for one of them, nested as deep as there are components, has ended with
\* the cycle reported.
C24_Witness ==
    /\ Cardinality(Singletons) = 3
    /\ Done(1)
    /\ result[1].exc = CyclicDependencyException
    /\ Len(result[1].cyclic_list) = 4
    /\ Idle(1)

\* The step ends a get_component call of thread t with an exception.
Fails(t) ==
    /\ result'[t] # result[t]
    /\ result'[t].op = "get_component"
    /\ result'[t].exc \notin {Pending, NoExc}

\* The singletons of the container thread t is constructing: those of its
\* _create_component calls.
UnderConstruction(t) ==
    {Building(t)[k].factory : k \in {d \in 1..Len(Building(t)) : Building(t)[d].container = "own"}}

\* The get_component call for key, made by a thread whose list is ctx, run
\* to its end.
Call(ctx, key) ==
    run_to_end(get_component(Running(Reps, <<>>, ctx,
                                     Result("get_component", key, Pending, NoInstance, <<>>)),
                             "own", key))

\* A step that ends a call with an exception leaves without an instance the
\* singletons the thread was constructing and the singleton requested.
C25Step ==
    \A t \in Threads :
        Fails(t) =>
            \A i \in Singletons :
                i \in UnderConstruction(t) \/ Denotes(result'[t].key, i) =>
                    /\ heap[i].instance = NoInstance
                    /\ heap'[i].instance = NoInstance

\* The same call made again after a failed one constructs again and ends
\* with the same exception and the same payload.
C25State ==
    \A t \in Threads :
        Done(t) /\ result[t].exc # NoExc /\ (\A u \in Threads : Idle(u)) =>
            LET again == Call(context[t], result[t].key)
            IN /\ again.res.exc = result[t].exc
               /\ again.res.cyclic_list = result[t].cyclic_list
               /\ again.res.obj = NoInstance
               /\ \A i \in Singletons :
                     Denotes(result[t].key, i) => heap[i].instance = NoInstance

\* C25: a get_component call that fails caches no instance for the
\* requested singleton or for any singleton under construction when it
\* failed, and the same call repeated on the same thread constructs again
\* and fails the same way, a cycle with the same payload.
C25_FailureCachesNothing == []C25State /\ [][C25Step]_vars

\* C25 witness: a call failed three frames deep on the cycle
\* A -> b -> c -> a; none of the three singletons has an instance, and the
\* call made again reports the same cycle.
C25_Witness ==
    /\ Cardinality(Singletons) = 3
    /\ Done(1)
    /\ result[1].exc = CyclicDependencyException
    /\ Len(result[1].cyclic_list) = 4
    /\ \A i \in Singletons : heap[i].instance = NoInstance
    /\ Call(context[1], result[1].key).res.cyclic_list = result[1].cyclic_list

\* The factory without its cache: the instance and the count of constructor
\* calls.
Uncached(f) ==
    IF f.kind = "singleton" THEN [f EXCEPT !.instance = NoInstance, !.constructed = 0]
    ELSE f

\* The step is one of a get_component call of thread t.
GetComponentStep(t) ==
    /\ result'[t].op = "get_component"
    /\ result'[t] # result[t] \/ frames'[t] # frames[t]

\* A step of a get_component call changes nothing of the repository and
\* nothing of a factory but a singleton's cache; the factory whose creation
\* the step enters is the one get_component found or, for a requirement,
\* the one setup linked, whatever the requirement would resolve to now; and
\* the call ends with the thread's list as it was when the call began.
C26Step ==
    \A t \in Threads :
        GetComponentStep(t) =>
            /\ factory_by_name' = factory_by_name
            /\ available_component_types' = available_component_types
            /\ factories' = factories
            /\ Len(heap') = Len(heap)
            /\ \A i \in Positions : Uncached(heap'[i]) = Uncached(heap[i])
            /\ \A i \in Positions \ Singletons : heap'[i] = heap[i]
            /\ \A j \in Positions :
                  ~Idle(t) /\ Enters(t, j) =>
                      \/ Innermost(t).pc = "found" /\ Innermost(t).factory = j
                      \/ /\ Innermost(t).pc = "create"
                         /\ ~Innermost(t).called
                         /\ j = WiredTo(Innermost(t).factory, Len(Innermost(t).args) + 1)
            /\ frames'[t] = <<>> => context'[t] = <<>>
            /\ Idle(t) => context[t] = <<>>

\* C26: get_component, returning or raising, leaves the name index, the
\* factory list, the known types and every factory's initialized flag,
\* requirements and linked factories as they are, and produces each
\* requirement from the factory setup linked, without looking it up again;
\* it changes only singletons' instances and, during the call, the calling
\* thread's list.
C26_FrameEffect == [][C26Step]_vars

\* C26 witness: a call returned a component whose requirement was produced
\* by the factory that setup linked, while the requirement, looked up in the
\* repository as it is now, no longer resolves to that factory.
C26_Witness ==
    \E i \in Singletons : \E k \in RequirementIndexes(i) :
        /\ Returned(1)
        /\ Denotes(result[1].key, i)
        /\ WiredTo(i, k) # 0
        /\ Resolution(Requirement(i, k)).factory # WiredTo(i, k)
        /\ Len(result[1].obj.args) = Len(heap[i].requirements)
        /\ result[1].obj.args[k] = heap[WiredTo(i, k)].instance

\* The constructor that thread t is running has its next get_component call
\* to make.
Looking(t) ==
    /\ ~Idle(t)
    /\ Innermost(t).pc = "create"
    /\ Innermost(t).called
    /\ Innermost(t).looked < Len(Lookups(FactoryOf(Innermost(t)).component_type))

\* The constructor that thread t is running has called get_component on its
\* own container, and that call is about to ask the singleton at position j
\* for its object: the call is about to be made with j's name, or it was
\* made with a type and has found j.
LooksUp(t, j) ==
    \/ /\ Looking(t)
       /\ Innermost(t).container = "own"
       /\ NextLookup(Thread(t), Innermost(t)).container = "own"
       /\ NextLookup(Thread(t), Innermost(t)).key.kind = "str"
       /\ Denotes(NextLookup(Thread(t), Innermost(t)).key, j)
    \/ /\ Len(frames[t]) >= 2
       /\ Innermost(t).pc = "found"
       /\ Innermost(t).container = "own"
       /\ Innermost(t).factory = j
       /\ frames[t][Len(frames[t]) - 1].pc = "create"
       /\ frames[t][Len(frames[t]) - 1].called

\* The detector list from the first occurrence of name on, closed by name.
CycleFrom(ctx, name) == Append(SubSeq(ctx, FirstIndex(ctx, name), Len(ctx)), name)

\* The get_component call of a constructor for a component that the thread
\* is constructing raises CyclicDependencyException, which ends the outer
\* call too: no frame is left or added, nothing is constructed, and the
\* payload is the list from that component on, closed by its name.
C28Step ==
    \A t \in Threads : \A j \in Singletons :
        /\ LooksUp(t, j)
        /\ j \in UnderConstruction(t)
        /\ Goes(t)
        => /\ result'[t].op = "get_component"
           /\ result'[t].key = result[t].key
           /\ result'[t].exc = CyclicDependencyException
           /\ result'[t].cyclic_list = CycleFrom(context[t], heap[j].component_name)
           /\ frames'[t] = <<>>
           /\ context'[t] = <<>>
           /\ heap' = heap

\* C28: a constructor that calls get_component on the container for a
\* component under construction on the same thread, its own or one below it
\* on the list, gets CyclicDependencyException from that call, and the outer
\* get_component call ends with that exception; the construction does not
\* recurse.
C28_LookupCycle == [][C28Step]_vars

\* C28 witness: the constructor of Q called container.get_component('q');
\* the call for Q ended with the cycle q, q, no instance of Q was made and
\* the list is empty.
C28_Witness ==
    \E j \in Singletons :
        /\ heap[j].component_type = "Q"
        /\ heap[j].initialized
        /\ heap[j].instance = NoInstance
        /\ heap[j].constructed = 0
        /\ Done(1)
        /\ Denotes(result[1].key, j)
        /\ result[1].exc = CyclicDependencyException
        /\ result[1].cyclic_list = <<"q", "q">>
        /\ context[1] = <<>>

\* The constructor that thread t is running in the first container is about
\* to call get_component on the second container.
LooksElsewhere(t) ==
    /\ Looking(t)
    /\ Innermost(t).container = "own"
    /\ NextLookup(Thread(t), Innermost(t)).container = "other"

C29Step ==
    \A t \in Threads :
        LooksElsewhere(t) /\ Goes(t) =>
            /\ result'[t].exc # CyclicDependencyException
            /\ result'[t].exc = Pending
            /\ heap' = heap

\* C29 as stated: the containers share no detection state: the
\* get_component call of a constructor on the second container, whose one
\* component x has no requirements, never raises
\* CyclicDependencyException, whatever the components under construction
\* in the first container are named; the call goes on to produce x and the
\* constructor gets its answer.
C29_IndependentContainers == [][C29Step]_vars
====
